---------------------------- MODULE Spec2Model ----------------------------
(***************************************************************************)
(* The control-transfer engine of the rv32im-v2 executor (Risc0Machine in  *)
(* risc0/circuit/rv32im-v2/src/execute/r0vm.rs): ecall, trap, mret,        *)
(* suspend/resume and the register accessors, over a guest memory of       *)
(* words.                                                                  *)
(*                                                                         *)
(* The machine word is scaled from 32 to 16 bits (TLC's integers are 32    *)
(* bit signed): a u32 is a number in 0 .. U32-1 and the address map of     *)
(* platform.rs keeps its order and its distances inside the system region, *)
(* with the upper address bits dropped.  Memory is a finite map from word  *)
(* addresses to words; a word that is not in the map reads 0.              *)
(***************************************************************************)
EXTENDS Integers, Naturals, Sequences, FiniteSets, TLC

VARIABLES pc, mode, mem, last, susp, nops, metrics

vars == <<pc, mode, mem, last, susp, nops, metrics>>

---------------------------------------------------------------------------
(* platform.rs / addr.rs: the address map and the address types            *)

U32 == 65536

WORD_SIZE == 4

ZERO_PAGE_END_ADDR == 256
KERNEL_START_ADDR == 49152
KERNEL_END_ADDR == 61440
MACHINE_REGS_ADDR == 61440
USER_REGS_ADDR == 61568
SAFE_WRITE_ADDR == 61696
MEPC_ADDR == 61952
SUSPEND_PC_ADDR == 61968
SUSPEND_MODE_ADDR == 61972
ECALL_DISPATCH_ADDR == 62464
TRAP_DISPATCH_ADDR == 63488

REG_ZERO == 0
REG_A0 == 10
REG_A1 == 11
REG_A2 == 12
REG_A7 == 17
REG_MAX == 32

SYSCALL_MAX == 32

MAX_IO_BYTES == 1024
MAX_IO_WORDS == 4

HOST_ECALL_TERMINATE == 0
HOST_ECALL_READ == 1
HOST_ECALL_WRITE == 2
HOST_ECALL_POSEIDON2 == 3

\* TrapCause::as_u32
IllegalInstruction == 2
EnvironmentCallFromUserMode == 8

\* A byte of the scaled word: a word is WORD_SIZE bytes, least significant first
BYTE == 16

\* ByteAddr::waddr, ByteAddr::is_aligned, ByteAddr::subaddr
waddr(addr) == addr \div WORD_SIZE
is_aligned(addr) == addr % WORD_SIZE = 0
subaddr(addr) == addr % WORD_SIZE

\* ByteAddr + n: an addition that leaves the address space is an error
add_overflows(addr, n) == addr + n >= U32

is_kernel_memory(addr) == addr >= KERNEL_START_ADDR /\ addr < KERNEL_END_ADDR

\* the user region: from the end of the zero page up to the kernel
is_user_memory(addr) == addr >= ZERO_PAGE_END_ADDR /\ addr < KERNEL_START_ADDR

---------------------------------------------------------------------------
(* Risc0Context: the backing store.  load_u32 / store_u32 on the word map  *)

load_u32(m, a) == IF a \in DOMAIN m THEN m[a] ELSE 0

store_u32(m, a, w) ==
    IF w = 0
    THEN [x \in DOMAIN m \ {a} |-> m[x]]
    ELSE [x \in DOMAIN m \cup {a} |-> IF x = a THEN w ELSE m[x]]

---------------------------------------------------------------------------
(* The engine works on a record s = [pc, mode, mem, hooks, trace, log, ret, *)
(* err]: hooks is the sequence of context hooks called so far in this      *)
(* call, trace the same sequence with the context's set_pc and store_u32   *)
(* calls (and a mark for each store_u8) in their place, log the trace with *)
(* the context's reads (load_u32, peek_u32) and set_machine_mode calls in   *)
(* their place as well, ret the returned value ("true", "false", "ok" for Ok(()),      *)
(* "fatal" for an Err or a panic) and err the error.                       *)

Hook(s, h) ==
    [s EXCEPT !.hooks = Append(@, h), !.trace = Append(@, h), !.log = Append(@, h)]
Mark(s, e) == [s EXCEPT !.trace = Append(@, e), !.log = Append(@, e)]
\* a call of the context that the trace leaves out: it is entered in the log
Access(s, e) == [s EXCEPT !.log = Append(@, e)]
Fail(s, e) == [s EXCEPT !.ret = "fatal", !.err = e]
Return(s, r) == [s EXCEPT !.ret = r]

is_machine_mode(s) == s.mode # 0

load_memory(s, a) == load_u32(s.mem, a)
store_memory(s, a, w) ==
    [s EXCEPT !.mem = store_u32(@, a, w), !.trace = Append(@, <<"store_u32", a, w>>),
              !.log = Append(@, <<"store_u32", a, w>>)]

set_pc(s, addr) ==
    [s EXCEPT !.pc = addr, !.trace = Append(@, <<"set_pc", addr>>),
              !.log = Append(@, <<"set_pc", addr>>)]

reg_base(s) ==
    IF is_machine_mode(s) THEN waddr(MACHINE_REGS_ADDR) ELSE waddr(USER_REGS_ADDR)

load_register(s, idx) == load_u32(s.mem, reg_base(s) + idx)

\* the engine after load_memory(a) and after load_register(idx), which the
\* context answers by load_u32(base + idx): the value is what load_memory and
\* load_register above return
loaded_memory(s, a) == Access(s, <<"load_u32", a>>)
loaded_register(s, idx) == loaded_memory(s, reg_base(s) + idx)

\* store_register without the redirection of index 0
store_register_addr_direct(s, idx) == reg_base(s) + idx

store_register_addr(s, idx) ==
    IF idx = REG_ZERO THEN reg_base(s) + REG_MAX * 2 + idx ELSE reg_base(s) + idx

store_register(s, idx, word) == store_memory(s, store_register_addr(s, idx), word)

next_pc(s) ==
    IF add_overflows(s.pc, WORD_SIZE) THEN Fail(s, "overflow")
    ELSE set_pc(s, s.pc + WORD_SIZE)

\* enter_trap without the check of the mode
enter_trap_unchecked(s, dispatch_addr) ==
    [store_memory(s, waddr(MEPC_ADDR), s.pc) EXCEPT
         !.pc = dispatch_addr, !.mode = 1, !.ret = "ok"]

\* enter_trap that saves the pc it goes to
enter_trap_saves_target(s, dispatch_addr) ==
    IF is_machine_mode(s) THEN Fail(s, "Illegal trap in machine mode")
    ELSE [Access(set_pc(store_memory(s, waddr(MEPC_ADDR), dispatch_addr), dispatch_addr),
                 <<"set_machine_mode", 1>>) EXCEPT
              !.mode = 1, !.ret = "ok"]

enter_trap(s, dispatch_addr) ==
    IF is_machine_mode(s) THEN Fail(s, "Illegal trap in machine mode")
    ELSE [Access(set_pc(store_memory(s, waddr(MEPC_ADDR), s.pc), dispatch_addr),
                 <<"set_machine_mode", 1>>) EXCEPT
              !.mode = 1, !.ret = "ok"]

\* the trap-table check with the kernel-memory test left out
trap_addr_invalid_align_only(dispatch_addr) == ~is_aligned(dispatch_addr)

trap_addr_invalid(dispatch_addr) ==
    ~is_aligned(dispatch_addr) \/ ~is_kernel_memory(dispatch_addr)

\* trap that enters the handler without calling the trap(cause) hook
trap_skips_hook(s0, cause) ==
    LET s == Hook(s0, <<"trap_rewind">>)
        dispatch_addr == load_memory(s, waddr(TRAP_DISPATCH_ADDR) + cause)
    IN  IF trap_addr_invalid(dispatch_addr) THEN Fail(s, "Invalid trap address")
        ELSE LET s1 == enter_trap(s, dispatch_addr)
             IN  IF s1.ret = "fatal" THEN s1 ELSE Return(s1, "false")

\* trap that reads the dispatch table first and calls trap_rewind after
trap_rewinds_late(s0, cause) ==
    LET s == Hook(loaded_memory(s0, waddr(TRAP_DISPATCH_ADDR) + cause),
                  <<"trap_rewind">>)
        dispatch_addr == load_memory(s, waddr(TRAP_DISPATCH_ADDR) + cause)
    IN  IF trap_addr_invalid(dispatch_addr) THEN Fail(s, "Invalid trap address")
        ELSE LET s1 == enter_trap(s, dispatch_addr)
             IN  IF s1.ret = "fatal" THEN s1
                 ELSE Return(Hook(s1, <<"trap", cause>>), "false")

trap(s0, cause) ==
    LET s == loaded_memory(Hook(s0, <<"trap_rewind">>),
                           waddr(TRAP_DISPATCH_ADDR) + cause)
        dispatch_addr == load_memory(s, waddr(TRAP_DISPATCH_ADDR) + cause)
    IN  IF trap_addr_invalid(dispatch_addr) THEN Fail(s, "Invalid trap address")
        ELSE LET s1 == enter_trap(s, dispatch_addr)
             IN  IF s1.ret = "fatal" THEN s1
                 ELSE Return(Hook(s1, <<"trap", cause>>), "false")

user_ecall_rejects(dispatch_addr) ==
    is_aligned(dispatch_addr) \/ dispatch_addr < KERNEL_START_ADDR

user_ecall(s) ==
    LET dispatch_idx == load_register(s, REG_A7)
        s1 == loaded_register(s, REG_A7)
        dispatch_addr == load_memory(s1, waddr(ECALL_DISPATCH_ADDR) + dispatch_idx)
        s2 == loaded_memory(s1, waddr(ECALL_DISPATCH_ADDR) + dispatch_idx)
    IN  IF dispatch_idx >= SYSCALL_MAX THEN trap(s1, EnvironmentCallFromUserMode)
        ELSE IF user_ecall_rejects(dispatch_addr)
             THEN trap(s2, EnvironmentCallFromUserMode)
             ELSE LET s3 == enter_trap(s2, dispatch_addr)
                  IN  IF s3.ret = "fatal" THEN s3 ELSE Return(s3, "true")

\* mret without the check of the mode
mret_unchecked(s) ==
    LET dispatch_addr == load_memory(s, waddr(MEPC_ADDR))
    IN  IF add_overflows(dispatch_addr, WORD_SIZE) THEN Fail(s, "overflow")
        ELSE [s EXCEPT !.pc = dispatch_addr + WORD_SIZE, !.mode = 0, !.ret = "true"]

\* mret that returns to the saved pc itself
mret_no_advance(s) ==
    IF ~is_machine_mode(s) THEN Fail(s, "Illegal mret in user mode")
    ELSE [s EXCEPT !.pc = load_memory(s, waddr(MEPC_ADDR)), !.mode = 0,
                   !.ret = "true"]

mret(s) ==
    IF ~is_machine_mode(s) THEN Fail(s, "Illegal mret in user mode")
    ELSE LET dispatch_addr == load_memory(s, waddr(MEPC_ADDR))
             s1 == loaded_memory(s, waddr(MEPC_ADDR))
         IN  IF add_overflows(dispatch_addr, WORD_SIZE) THEN Fail(s1, "overflow")
             ELSE [Access(set_pc(s1, dispatch_addr + WORD_SIZE),
                          <<"set_machine_mode", 0>>) EXCEPT
                      !.mode = 0, !.ret = "true"]

\* suspend that saves the mode as a flag (0 or 1)
suspend_mode_as_flag(s) ==
    LET s1 == store_memory(s, waddr(SUSPEND_PC_ADDR), s.pc)
        s2 == store_memory(s1, waddr(SUSPEND_MODE_ADDR),
                           IF is_machine_mode(s1) THEN 1 ELSE 0)
    IN  Return(Hook(s2, <<"suspend">>), "ok")

suspend(s) ==
    LET s1 == store_memory(s, waddr(SUSPEND_PC_ADDR), s.pc)
        s2 == store_memory(s1, waddr(SUSPEND_MODE_ADDR), s1.mode)
    IN  Return(Hook(s2, <<"suspend">>), "ok")

resume(s) ==
    LET new_pc == load_memory(s, waddr(SUSPEND_PC_ADDR))
        machine_mode == load_memory(s, waddr(SUSPEND_MODE_ADDR))
        s1 == loaded_memory(loaded_memory(s, waddr(SUSPEND_PC_ADDR)),
                            waddr(SUSPEND_MODE_ADDR))
    IN  Return(Hook([Access(set_pc(s1, new_pc), <<"set_machine_mode", machine_mode>>)
                        EXCEPT !.mode = machine_mode],
                    <<"resume">>), "ok")

---------------------------------------------------------------------------
(* The machine ecalls.  Every call of a context hook is appended to hooks, *)
(* on_ecall_cycle(cur, next, s0, s1, s2) as <<"on_ecall_cycle", cur, next, *)
(* s0, s1, s2>>.                                                           *)

on_ecall_cycle(s, cur, next, s0, s1, s2) ==
    Hook(s, <<"on_ecall_cycle", cur, next, s0, s1, s2>>)

\* u32::to_le_bytes(word)[offset] and the word with that byte replaced
le_byte(word, offset) == (word \div (BYTE ^ offset)) % BYTE
with_le_byte(word, offset, byte) ==
    word - le_byte(word, offset) * (BYTE ^ offset) + byte * (BYTE ^ offset)

\* u32::from_le_bytes(bytes[i..i + WORD_SIZE]), i counted from 0
\* from_le_bytes taking the word one word further into the buffer, where
\* the buffer has one
from_le_bytes_ahead(bytes, i) ==
    LET k == IF i + 2 * WORD_SIZE <= Len(bytes) THEN i + WORD_SIZE ELSE i
    IN  bytes[k + 1] + bytes[k + 2] * BYTE + bytes[k + 3] * BYTE ^ 2
            + bytes[k + 4] * BYTE ^ 3

from_le_bytes(bytes, i) ==
    bytes[i + 1] + bytes[i + 2] * BYTE + bytes[i + 3] * BYTE ^ 2
        + bytes[i + 4] * BYTE ^ 3

Min(a, b) == IF a < b THEN a ELSE b

\* ecall_terminate reading a0 and a1 from the bank of the current mode
ecall_terminate_current_bank(s) ==
    LET s1 == on_ecall_cycle(s, "MachineEcall", "Terminate", 0, 0, 0)
        a0 == load_register(s1, REG_A0)
        a1 == load_register(s1, REG_A1)
        s2 == Hook(s1, <<"on_terminate", a0, a1>>)
    IN  Return(on_ecall_cycle(s2, "Terminate", "Suspend", 0, 0, 0), "false")

\* ecall_terminate that hands the machine back in user mode
ecall_terminate_drops_mode(s) ==
    LET s1 == on_ecall_cycle(s, "MachineEcall", "Terminate", 0, 0, 0)
        a0 == load_memory(s1, waddr(USER_REGS_ADDR) + REG_A0)
        a1 == load_memory(s1, waddr(USER_REGS_ADDR) + REG_A1)
        s2 == Hook(s1, <<"on_terminate", a0, a1>>)
    IN  [on_ecall_cycle(s2, "Terminate", "Suspend", 0, 0, 0) EXCEPT
             !.mode = 0, !.ret = "false"]

ecall_terminate(s) ==
    LET s1 == on_ecall_cycle(s, "MachineEcall", "Terminate", 0, 0, 0)
        a0 == load_memory(s1, waddr(USER_REGS_ADDR) + REG_A0)
        a1 == load_memory(s1, waddr(USER_REGS_ADDR) + REG_A1)
        s2 == Hook(loaded_memory(loaded_memory(s1, waddr(USER_REGS_ADDR) + REG_A0),
                                 waddr(USER_REGS_ADDR) + REG_A1),
                   <<"on_terminate", a0, a1>>)
    IN  Return(on_ecall_cycle(s2, "Terminate", "Suspend", 0, 0, 0), "false")

\* ecall_poseidon2 that reports the transition first and then advances pc
ecall_poseidon2_report_first(s) ==
    LET s1 == next_pc(on_ecall_cycle(s, "MachineEcall", "PoseidonEntry", 0, 0, 0))
    IN  IF s1.ret = "fatal" THEN s1 ELSE Return(s1, "false")

\* ecall_poseidon2 that reports the transition and leaves pc alone
ecall_poseidon2_no_advance(s) ==
    Return(on_ecall_cycle(s, "MachineEcall", "PoseidonEntry", 0, 0, 0), "false")

ecall_poseidon2(s) ==
    LET s1 == next_pc(s)
    IN  IF s1.ret = "fatal" THEN s1
        ELSE Return(on_ecall_cycle(s1, "MachineEcall", "PoseidonEntry", 0, 0, 0),
                    "false")

store_u8(s, addr, byte) ==
    LET byte_offset == subaddr(addr)
        word == load_memory(s, waddr(addr))
    IN  store_memory(loaded_memory(Mark(s, <<"store_u8", addr, byte>>), waddr(addr)),
                     waddr(addr), with_le_byte(word, byte_offset, byte))

peek_u8(s, ptr) == le_byte(load_u32(s.mem, waddr(ptr)), subaddr(ptr))

\* peek reading from the start of the word that holds ptr
peek_from_word_start(s, ptr, len) ==
    [k \in 1 .. len |-> peek_u8(s, waddr(ptr) * WORD_SIZE + (k - 1))]

peek(s, ptr, len) == [k \in 1 .. len |-> peek_u8(s, ptr + (k - 1))]

\* peek that reads the words through load_u32
peeked_by_load(s, ptr, len) ==
    [s EXCEPT !.log = @ \o [k \in 1 .. len |-> <<"load_u32", waddr(ptr + (k - 1))>>]]

\* the engine after peek(ptr, len): one peek_u32 for each byte
peeked(s, ptr, len) ==
    [s EXCEPT !.log = @ \o [k \in 1 .. len |-> <<"peek_u32", waddr(ptr + (k - 1))>>]]

\* next_io_state that looks at the remaining length only
next_io_state_length_only(ptr, rlen) ==
    IF rlen = 0 THEN "Decode"
    ELSE IF rlen < WORD_SIZE THEN "HostReadBytes"
    ELSE "HostReadWords"

next_io_state_no_decode(ptr, rlen) ==
    IF ~is_aligned(ptr) \/ rlen < WORD_SIZE THEN "HostReadBytes"
    ELSE "HostReadWords"

next_io_state(ptr, rlen) ==
    IF rlen = 0 THEN "Decode"
    ELSE IF ~is_aligned(ptr) \/ rlen < WORD_SIZE THEN "HostReadBytes"
    ELSE "HostReadWords"

(* The loops of ecall_read run on l = [s, ptr, i, rlen, cur]: the engine   *)
(* record and the locals ptr, i, rlen and cur_state.                       *)

\* the conditions of the byte loops and of the word loop
bytes_loop_runs(l) == l.rlen > 0 /\ ~is_aligned(l.ptr)

\* the word loop taking up whatever is left
words_loop_runs_to_zero(l) == l.rlen > 0

words_loop_runs(l) == l.rlen >= MAX_IO_WORDS

\* one iteration of a byte loop
read_byte_step(l, bytes) ==
    IF l.i >= Len(bytes) THEN [l EXCEPT !.s = Fail(@, "index out of bounds")]
    ELSE LET s1 == store_u8(l.s, l.ptr, bytes[l.i + 1])
         IN  IF add_overflows(l.ptr, 1) THEN [l EXCEPT !.s = Fail(s1, "overflow")]
             ELSE [l EXCEPT !.s = s1, !.ptr = @ + 1, !.i = @ + 1, !.rlen = @ - 1]

RECURSIVE read_bytes_loop(_, _)
read_bytes_loop(l, bytes) ==
    IF l.s.ret = "fatal" \/ ~bytes_loop_runs(l) THEN l
    ELSE read_bytes_loop(read_byte_step(l, bytes), bytes)

\* the slots of a batch stepping ptr, i and rlen by a word each
RECURSIVE read_batch_loop_word_steps(_, _, _, _)
read_batch_loop_word_steps(l, bytes, words, j) ==
    IF l.s.ret = "fatal" \/ j >= MAX_IO_WORDS THEN l
    ELSE IF j < words /\ l.i + WORD_SIZE > Len(bytes)
         THEN [l EXCEPT !.s = Fail(@, "index out of bounds")]
    ELSE LET s1 == IF j < words
                   THEN store_memory(l.s, waddr(l.ptr), from_le_bytes(bytes, l.i))
                   ELSE store_memory(l.s, waddr(SAFE_WRITE_ADDR), 0)
         IN  IF add_overflows(l.ptr, WORD_SIZE) THEN [l EXCEPT !.s = Fail(s1, "overflow")]
             ELSE IF l.rlen < WORD_SIZE THEN [l EXCEPT !.s = Fail(s1, "underflow")]
             ELSE read_batch_loop_word_steps(
                      [l EXCEPT !.s = s1, !.ptr = @ + WORD_SIZE, !.i = @ + WORD_SIZE,
                                !.rlen = @ - WORD_SIZE],
                      bytes, words, j + 1)

\* slot j of a batch of the word loop.  bytes[i..i + WORD_SIZE] outside the
\* buffer and rlen -= words below 0 are panics: "index out of bounds" and
\* "underflow"
read_slot_step(l, bytes, words, j) ==
    IF j < words /\ l.i + WORD_SIZE > Len(bytes)
    THEN [l EXCEPT !.s = Fail(@, "index out of bounds")]
    ELSE LET s1 == IF j < words
                   THEN store_memory(l.s, waddr(l.ptr), from_le_bytes(bytes, l.i))
                   ELSE store_memory(l.s, waddr(SAFE_WRITE_ADDR), 0)
         IN  IF add_overflows(l.ptr, words) THEN [l EXCEPT !.s = Fail(s1, "overflow")]
             ELSE IF l.rlen < words THEN [l EXCEPT !.s = Fail(s1, "underflow")]
             ELSE [l EXCEPT !.s = s1, !.ptr = @ + words, !.i = @ + words,
                            !.rlen = @ - words]

RECURSIVE read_batch_loop(_, _, _, _)
read_batch_loop(l, bytes, words, j) ==
    IF l.s.ret = "fatal" \/ j >= MAX_IO_WORDS THEN l
    ELSE read_batch_loop(read_slot_step(l, bytes, words, j), bytes, words, j + 1)

\* the word loop reporting the pointer the batch started with
RECURSIVE read_words_loop_stale_report(_, _)
read_words_loop_stale_report(l, bytes) ==
    IF l.s.ret = "fatal" \/ ~(l.rlen >= MAX_IO_WORDS) THEN l
    ELSE LET words == Min(l.rlen \div MAX_IO_WORDS, MAX_IO_WORDS)
             l1 == read_batch_loop(l, bytes, words, 0)
             s2 == IF l1.rlen = 0 THEN next_pc(l1.s) ELSE l1.s
             next_state == next_io_state(l1.ptr, l1.rlen)
         IN  IF l1.s.ret = "fatal" THEN l1
             ELSE IF s2.ret = "fatal" THEN [l1 EXCEPT !.s = s2]
             ELSE read_words_loop_stale_report(
                      [l1 EXCEPT !.s = on_ecall_cycle(s2, l1.cur, next_state,
                                           waddr(l.ptr), subaddr(l.ptr), l1.rlen),
                                 !.cur = next_state],
                      bytes)

\* the word loop that reports its transition and keeps cur_state as it was
RECURSIVE read_words_loop_keeps_state(_, _)
read_words_loop_keeps_state(l, bytes) ==
    IF l.s.ret = "fatal" \/ ~(l.rlen >= MAX_IO_WORDS) THEN l
    ELSE LET words == Min(l.rlen \div MAX_IO_WORDS, MAX_IO_WORDS)
             l1 == read_batch_loop(l, bytes, words, 0)
             s2 == IF l1.rlen = 0 THEN next_pc(l1.s) ELSE l1.s
             next_state == next_io_state(l1.ptr, l1.rlen)
         IN  IF l1.s.ret = "fatal" THEN l1
             ELSE IF s2.ret = "fatal" THEN [l1 EXCEPT !.s = s2]
             ELSE read_words_loop_keeps_state(
                      [l1 EXCEPT !.s = on_ecall_cycle(s2, l1.cur, next_state,
                                           waddr(l1.ptr), subaddr(l1.ptr), l1.rlen)],
                      bytes)

\* the number of data words of the batch that starts with rlen bytes left
batch_words(l) == Min(l.rlen \div MAX_IO_WORDS, MAX_IO_WORDS)

\* the end of an iteration of the word loop, after the slots: pc and report
read_batch_end(l1) ==
    LET s2 == IF l1.rlen = 0 THEN next_pc(l1.s) ELSE l1.s
        next_state == next_io_state(l1.ptr, l1.rlen)
    IN  IF s2.ret = "fatal" THEN [l1 EXCEPT !.s = s2]
        ELSE [l1 EXCEPT !.s = on_ecall_cycle(s2, l1.cur, next_state,
                                  waddr(l1.ptr), subaddr(l1.ptr), l1.rlen),
                        !.cur = next_state]

\* one iteration of the word loop: a batch and its report
read_words_step(l, bytes) ==
    LET l1 == read_batch_loop(l, bytes, batch_words(l), 0)
    IN  IF l1.s.ret = "fatal" THEN l1 ELSE read_batch_end(l1)

RECURSIVE read_words_loop(_, _)
read_words_loop(l, bytes) ==
    IF l.s.ret = "fatal" \/ ~words_loop_runs(l) THEN l
    ELSE read_words_loop(read_words_step(l, bytes), bytes)

\* ecall_read without the bound on len
ecall_read_unbounded(s, rlen, bytes) ==
    LET s1 == on_ecall_cycle(s, "MachineEcall", "HostReadSetup", 0, 0, 0)
        fd == load_register(s1, REG_A0)
        ptr == load_register(s1, REG_A1)
        len == load_register(s1, REG_A2)
        s2 == Hook(s1, <<"host_read", fd, len>>)
        s3 == store_register(s2, REG_A0, rlen)
        s4 == IF rlen = 0 THEN next_pc(s3) ELSE s3
        next_state == next_io_state(ptr, rlen)
        s5 == on_ecall_cycle(s4, "HostReadSetup", next_state,
                             waddr(ptr), subaddr(ptr), rlen)
        l0 == [s |-> s5, ptr |-> ptr, i |-> 0, rlen |-> rlen, cur |-> next_state]
        l1 == read_bytes_loop(l0, bytes)
        l2 == read_words_loop(l1, bytes)
        l3 == read_bytes_loop(l2, bytes)
    IN  IF add_overflows(ptr, len) THEN Fail(s1, "Invalid length in host read")
        ELSE IF s4.ret = "fatal" THEN s4
        ELSE IF l3.s.ret = "fatal" THEN l3.s
        ELSE Return(l3.s, "false")

\* ecall_read up to its loops: the checks, the host's answer and the first
\* two reports.  host_read(fd, buf) fills buf with bytes and returns rlen
read_setup(s, rlen, bytes) ==
    LET s0 == on_ecall_cycle(s, "MachineEcall", "HostReadSetup", 0, 0, 0)
        s1 == loaded_register(loaded_register(loaded_register(s0, REG_A0), REG_A1),
                              REG_A2)
        fd == load_register(s1, REG_A0)
        ptr == load_register(s1, REG_A1)
        len == load_register(s1, REG_A2)
        s2 == Hook(s1, <<"host_read", fd, len>>)
        s3 == store_register(s2, REG_A0, rlen)
        s4 == IF rlen = 0 THEN next_pc(s3) ELSE s3
        next_state == next_io_state(ptr, rlen)
        s5 == on_ecall_cycle(s4, "HostReadSetup", next_state,
                             waddr(ptr), subaddr(ptr), rlen)
    IN  [s |-> IF add_overflows(ptr, len) THEN Fail(s1, "Invalid length in host read")
               ELSE IF len > MAX_IO_BYTES
                    THEN Fail(s1, "Invalid length (too big) in host read")
               ELSE IF s4.ret = "fatal" THEN s4
               ELSE s5,
         ptr |-> ptr, i |-> 0, rlen |-> rlen, cur |-> next_state]

ecall_read(s, rlen, bytes) ==
    LET l0 == read_setup(s, rlen, bytes)
        l1 == read_bytes_loop(l0, bytes)
        l2 == read_words_loop(l1, bytes)
        l3 == read_bytes_loop(l2, bytes)
    IN  IF l3.s.ret = "fatal" THEN l3.s ELSE Return(l3.s, "false")

\* ecall_write without the report of the return to Decode
ecall_write_unreported_return(s, rlen) ==
    LET s1 == on_ecall_cycle(s, "MachineEcall", "HostWrite", 0, 0, 0)
        fd == load_register(s1, REG_A0)
        ptr == load_register(s1, REG_A1)
        len == load_register(s1, REG_A2)
        s2 == Hook(s1, <<"host_write", fd, peek(s1, ptr, len)>>)
        s4 == next_pc(store_register(s2, REG_A0, rlen))
    IN  IF add_overflows(ptr, len) \/ len > MAX_IO_BYTES
        THEN Fail(s1, "Invalid length in host write")
        ELSE IF s4.ret = "fatal" THEN s4
        ELSE Return(s4, "false")

\* host_write(fd, buf) returns rlen
ecall_write(s, rlen) ==
    LET s0 == on_ecall_cycle(s, "MachineEcall", "HostWrite", 0, 0, 0)
        s1 == loaded_register(loaded_register(loaded_register(s0, REG_A0), REG_A1),
                              REG_A2)
        fd == load_register(s1, REG_A0)
        ptr == load_register(s1, REG_A1)
        len == load_register(s1, REG_A2)
        bytes == peek(s1, ptr, len)
        s2 == Hook(peeked(s1, ptr, len), <<"host_write", fd, bytes>>)
        s3 == store_register(s2, REG_A0, rlen)
        s4 == next_pc(s3)
    IN  IF add_overflows(ptr, len) THEN Fail(s1, "Invalid length in host write")
        ELSE IF len > MAX_IO_BYTES
             THEN Fail(s1, "Invalid length (too big) in host write")
        ELSE IF s4.ret = "fatal" THEN s4
        ELSE Return(on_ecall_cycle(s4, "HostWrite", "Decode", 0, 0, 0), "false")

\* machine_ecall that takes every other code for POSEIDON2
machine_ecall_default_poseidon2(s, io) ==
    LET a7 == load_register(s, REG_A7)
    IN  IF a7 = HOST_ECALL_TERMINATE THEN ecall_terminate(s)
        ELSE IF a7 = HOST_ECALL_READ THEN ecall_read(s, io.rlen, io.bytes)
        ELSE IF a7 = HOST_ECALL_WRITE THEN ecall_write(s, io.rlen)
        ELSE ecall_poseidon2(s)

\* io = [rlen, bytes]: what the host answers if this ecall reaches it
machine_ecall(s, io) ==
    LET a7 == load_register(s, REG_A7)
        s1 == loaded_register(s, REG_A7)
    IN  IF a7 = HOST_ECALL_TERMINATE THEN ecall_terminate(s1)
        ELSE IF a7 = HOST_ECALL_READ THEN ecall_read(s1, io.rlen, io.bytes)
        ELSE IF a7 = HOST_ECALL_WRITE THEN ecall_write(s1, io.rlen)
        ELSE IF a7 = HOST_ECALL_POSEIDON2 THEN ecall_poseidon2(s1)
        ELSE Fail(s1, "unimplemented")

ecall(s, io) ==
    IF is_machine_mode(s) THEN machine_ecall(s, io) ELSE user_ecall(s)

\* check_insn_load that keeps the kernel from the machine mode
check_insn_load_swapped_mode(s, addr) ==
    ~(addr < ZERO_PAGE_END_ADDR \/ (is_machine_mode(s) /\ addr < KERNEL_START_ADDR))

\* check_insn_load without the test of the zero page
check_insn_load_kernel_only(s, addr) ==
    ~(~is_machine_mode(s) /\ addr >= KERNEL_START_ADDR)

check_insn_load(s, addr) ==
    ~(addr < ZERO_PAGE_END_ADDR \/ (~is_machine_mode(s) /\ addr >= KERNEL_START_ADDR))

\* check_data_load without the test of the mode
check_data_load_user_only(s, addr) == is_user_memory(addr)

check_data_load(s, addr) == is_machine_mode(s) \/ is_user_memory(addr)

check_data_store(s, addr) == check_data_load(s, addr)

---------------------------------------------------------------------------
(* The state machine.  pc, mode and mem are the state behind               *)
(* Risc0Context; last records the last call of the engine: the operation,  *)
(* its argument, what it returned, the hooks it called and the state it    *)
(* started from; susp records the (pc, mode) of the last suspend and       *)
(* whether the two suspend slots have kept their values since; nops counts *)
(* the calls; metrics is the Keccak counter of the syscall table.          *)

MaxOps == 3

\* The ecall dispatch index and the trap causes the runs use
EcallIdx == 5
Causes == {IllegalInstruction, EnvironmentCallFromUserMode}

\* Dispatch-table entries: a handler in kernel memory, a misaligned address
\* in kernel memory, an aligned address below the kernel and an aligned
\* address above its end
HandlerAddr == KERNEL_START_ADDR + 256
EntryValues == {HandlerAddr, HandlerAddr + 1, 1024, MEPC_ADDR}
TrapEntryValues == {HandlerAddr + 64, HandlerAddr + 66, SAFE_WRITE_ADDR}

InitPcs == {512}
\* user, machine, and a machine-mode flag other than 1 (any non-zero u32)
InitModes == {0, 1, 2}
RegIdx == {REG_ZERO, REG_A7}
RegWords == {HOST_ECALL_READ, HOST_ECALL_WRITE, HOST_ECALL_POSEIDON2, EcallIdx, SYSCALL_MAX}
MemTargets == {waddr(MEPC_ADDR), waddr(SUSPEND_PC_ADDR), waddr(SUSPEND_MODE_ADDR)}
MemWords == {2, U32 - 4}

\* What the host may answer to a request of len bytes
HostAnswers(len) ==
    {[rlen |-> n, bytes |-> [k \in 1 .. len |-> IF k <= n THEN (k % (BYTE - 1)) + 1 ELSE 0]]
        : n \in 0 .. len}

Cur == [pc |-> pc, mode |-> mode, mem |-> mem, hooks |-> <<>>, trace |-> <<>>, log |-> <<>>,
        ret |-> "none", err |-> ""]

SuspendSlots(m) ==
    <<load_u32(m, waddr(SUSPEND_PC_ADDR)), load_u32(m, waddr(SUSPEND_MODE_ADDR))>>

Running == last.ret # "fatal" /\ nops < MaxOps

Commit(op, arg, r) ==
    /\ pc' = r.pc
    /\ mode' = r.mode
    /\ mem' = r.mem
    /\ last' = [op |-> op, arg |-> arg, ret |-> r.ret, err |-> r.err,
                hooks |-> r.hooks, trace |-> r.trace, log |-> r.log,
                pc0 |-> pc, mode0 |-> mode, mem0 |-> mem]
    /\ susp' = IF op = "suspend"
               THEN [valid |-> TRUE, pc |-> pc, mode |-> mode]
               ELSE [susp EXCEPT !.valid = @ /\ SuspendSlots(r.mem) = SuspendSlots(mem)]
    /\ nops' = nops + 1
    /\ metrics' = metrics

Init ==
    /\ pc \in InitPcs
    /\ mode \in InitModes
    /\ \E e \in EntryValues, t \in TrapEntryValues :
          mem = store_u32(store_u32(store_u32(store_u32(<<>>,
                    waddr(ECALL_DISPATCH_ADDR) + EcallIdx, e),
                    waddr(TRAP_DISPATCH_ADDR) + EnvironmentCallFromUserMode, t),
                    waddr(TRAP_DISPATCH_ADDR) + IllegalInstruction, HandlerAddr + 128),
                    waddr(USER_REGS_ADDR) + REG_A7, EcallIdx)
    /\ last = [op |-> "init", arg |-> <<>>, ret |-> "none", err |-> "",
               hooks |-> <<>>, trace |-> <<>>, log |-> <<>>,
               pc0 |-> pc, mode0 |-> mode, mem0 |-> mem]
    /\ susp = [valid |-> FALSE, pc |-> 0, mode |-> 0]
    /\ nops = 0
    /\ metrics = 0

Ecall ==
    /\ Running
    /\ \E io \in HostAnswers(Min(load_register(Cur, REG_A2), MAX_IO_BYTES)) :
          Commit("ecall", <<io.rlen, io.bytes>>, ecall(Cur, io))

Trap ==
    /\ Running
    /\ \E cause \in Causes : Commit("trap", <<cause>>, trap(Cur, cause))

Mret ==
    /\ Running
    /\ Commit("mret", <<>>, mret(Cur))

Suspend ==
    /\ Running
    /\ Commit("suspend", <<>>, suspend(Cur))

Resume ==
    /\ Running
    /\ Commit("resume", <<>>, resume(Cur))

StoreRegister ==
    /\ Running
    /\ \E idx \in RegIdx, word \in RegWords :
          Commit("store_register", <<idx, word>>,
                 Return(store_register(Cur, idx, word), "ok"))

StoreMemory ==
    /\ Running
    /\ \E addr \in MemTargets, word \in MemWords :
          Commit("store_memory", <<addr, word>>,
                 Return(store_memory(Cur, addr, word), "ok"))

Next ==
    \/ Ecall
    \/ Trap
    \/ Mret
    \/ Suspend
    \/ Resume
    \/ StoreRegister
    \/ StoreMemory

Spec == Init /\ [][Next]_vars

---------------------------------------------------------------------------
(* The machine ecalls on their own: SpecIO starts in machine mode at an    *)
(* ecall instruction with A7, A0 (fd), A1 (ptr) and A2 (len) of the        *)
(* machine bank drawn from the sets below, the guest words around          *)
(* ptr .. ptr + len filled with a pattern, and takes ecalls whose host     *)
(* answers are drawn from IoAnswers.                                       *)

MaxIoOps == 1
MaxLen == 9
MaxRlen == 32

\* ecall codes: the four machine ecalls and a code that is none of them
IoCodes == {HOST_ECALL_TERMINATE, HOST_ECALL_READ, HOST_ECALL_WRITE,
            HOST_ECALL_POSEIDON2, 9}
\* a handler address and the last word of the address space
IoPcs == {HandlerAddr, U32 - 4}
\* every alignment, and a pointer two bytes below the end of the address space
IoPtrs == {1024, 1025, 1026, 1027, U32 - 2}
IoLens == (0 .. MaxLen) \cup {12, 16, 17, 20, 32, MAX_IO_BYTES, MAX_IO_BYTES + 1}
IoFd == 1
\* exit codes in the user bank, other than what the machine bank holds
UserA0 == 7
UserA1 == 13

\* the guest words before the ecall hold, at byte offset 0 .. 3, the four
\* highest byte values; the host's bytes are other than these and other than 0
FillByte(offset) == BYTE - WORD_SIZE + offset
FillWord == FillByte(0) + FillByte(1) * BYTE + FillByte(2) * BYTE ^ 2 + FillByte(3) * BYTE ^ 3
HostByte(k) == (k % (BYTE - WORD_SIZE - 1)) + 1

\* host_read / host_write answer a request of len bytes with rlen <= len; the
\* host fills at most MaxRlen bytes in one call
IoAnswers(len) ==
    {[rlen |-> n, bytes |-> [k \in 1 .. len |-> IF k <= n THEN HostByte(k) ELSE 0]]
        : n \in {x \in 0 .. Min(len, MaxRlen) : x <= MaxLen \/ x = len}}

IoGuestWords(ptr, len) ==
    {a \in (waddr(ptr) - 1) .. (waddr(ptr) + (len \div WORD_SIZE) + 2) :
        a < U32 \div WORD_SIZE}

IoMem(code, ptr, len) ==
    LET mb == waddr(MACHINE_REGS_ADDR)
        ub == waddr(USER_REGS_ADDR)
        m1 == [a \in IoGuestWords(ptr, len) |-> FillWord]
        m2 == store_u32(store_u32(m1, ub + REG_A0, UserA0), ub + REG_A1, UserA1)
        m3 == store_u32(store_u32(m2, mb + REG_A7, code), mb + REG_A0, IoFd)
    IN  store_u32(store_u32(m3, mb + REG_A1, ptr), mb + REG_A2, len)

InitIO ==
    /\ pc \in IoPcs
    /\ mode = 1
    /\ \E code \in IoCodes, ptr \in IoPtrs, len \in IoLens : mem = IoMem(code, ptr, len)
    /\ last = [op |-> "init", arg |-> <<>>, ret |-> "none", err |-> "",
               hooks |-> <<>>, trace |-> <<>>, log |-> <<>>,
               pc0 |-> pc, mode0 |-> mode, mem0 |-> mem]
    /\ susp = [valid |-> FALSE, pc |-> 0, mode |-> 0]
    /\ nops = 0
    /\ metrics = 0

IoEcall ==
    /\ last.ret # "fatal"
    /\ nops < MaxIoOps
    /\ \E io \in IoAnswers(Min(load_register(Cur, REG_A2), MAX_IO_BYTES)) :
          Commit("ecall", <<io.rlen, io.bytes>>, ecall(Cur, io))

NextIO == IoEcall

SpecIO == InitIO /\ [][NextIO]_vars

---------------------------------------------------------------------------
(* The access checks on their own: SpecCheck starts in either mode and      *)
(* asks the three checks about addresses at and around the borders of the   *)
(* zero page, the user region and the kernel.                               *)

MaxChecks == 2

CheckAddrs == {0, ZERO_PAGE_END_ADDR - 1, ZERO_PAGE_END_ADDR, 1024,
               KERNEL_START_ADDR - 1, KERNEL_START_ADDR, HandlerAddr,
               KERNEL_END_ADDR - 1, KERNEL_END_ADDR, MEPC_ADDR, U32 - 1}

Answer(b) == IF b THEN "true" ELSE "false"

InitCheck ==
    /\ pc \in InitPcs
    /\ mode \in InitModes
    /\ mem = <<>>
    /\ last = [op |-> "init", arg |-> <<>>, ret |-> "none", err |-> "",
               hooks |-> <<>>, trace |-> <<>>, log |-> <<>>,
               pc0 |-> pc, mode0 |-> mode, mem0 |-> mem]
    /\ susp = [valid |-> FALSE, pc |-> 0, mode |-> 0]
    /\ nops = 0
    /\ metrics = 0

CheckInsnLoad ==
    /\ nops < MaxChecks
    /\ \E addr \in CheckAddrs :
          Commit("check_insn_load", <<addr>>, Return(Cur, Answer(check_insn_load(Cur, addr))))

CheckDataLoad ==
    /\ nops < MaxChecks
    /\ \E addr \in CheckAddrs :
          Commit("check_data_load", <<addr>>, Return(Cur, Answer(check_data_load(Cur, addr))))

CheckDataStore ==
    /\ nops < MaxChecks
    /\ \E addr \in CheckAddrs :
          Commit("check_data_store", <<addr>>, Return(Cur, Answer(check_data_store(Cur, addr))))

NextCheck == CheckInsnLoad \/ CheckDataLoad \/ CheckDataStore

SpecCheck == InitCheck /\ [][NextCheck]_vars

---------------------------------------------------------------------------
(* Two runs of the engine side by side: SpecTwin gives the same calls and   *)
(* the same host answers to a second engine that starts from the same pc,   *)
(* mode and memory.  The second engine's state and what its last call       *)
(* returned and reported are kept in last.twin.  The two host buffers hold  *)
(* the same rlen bytes; what the host left behind them may differ.          *)

MaxTwinOps == 2

TwinPtrs == {1024, 1027}
TwinLens == {0, 3, 2 * WORD_SIZE, 17}
\* what the second host leaves in its buffer behind the bytes it returned
TailBytes == {0, BYTE - 1}

WithTail(io, tail) ==
    [rlen |-> io.rlen,
     bytes |-> [k \in 1 .. Len(io.bytes) |-> IF k <= io.rlen THEN io.bytes[k] ELSE tail]]

Twin == [pc |-> last.twin.pc, mode |-> last.twin.mode, mem |-> last.twin.mem,
         hooks |-> <<>>, trace |-> <<>>, log |-> <<>>, ret |-> "none", err |-> ""]

InitTwin ==
    /\ pc \in IoPcs
    /\ mode = 1
    /\ \E code \in IoCodes, ptr \in TwinPtrs, len \in TwinLens :
          mem = IoMem(code, ptr, len)
    /\ last = [op |-> "init", arg |-> <<>>, ret |-> "none", err |-> "",
               hooks |-> <<>>, trace |-> <<>>, log |-> <<>>,
               pc0 |-> pc, mode0 |-> mode, mem0 |-> mem,
               twin |-> [pc |-> pc, mode |-> mode, mem |-> mem, hooks |-> <<>>,
                         ret |-> "none", err |-> ""]]
    /\ susp = [valid |-> FALSE, pc |-> 0, mode |-> 0]
    /\ nops = 0
    /\ metrics = 0

\* the call returns r in the first engine and q in the second
CommitTwin(op, arg, r, q) ==
    /\ pc' = r.pc
    /\ mode' = r.mode
    /\ mem' = r.mem
    /\ last' = [op |-> op, arg |-> arg, ret |-> r.ret, err |-> r.err,
                hooks |-> r.hooks, trace |-> r.trace, log |-> r.log,
                pc0 |-> pc, mode0 |-> mode, mem0 |-> mem,
                twin |-> [pc |-> q.pc, mode |-> q.mode, mem |-> q.mem,
                          hooks |-> q.hooks, ret |-> q.ret, err |-> q.err]]
    /\ susp' = susp
    /\ nops' = nops + 1
    /\ metrics' = metrics

TwinRunning == last.ret # "fatal" /\ last.twin.ret # "fatal" /\ nops < MaxTwinOps

TwinEcall ==
    /\ TwinRunning
    /\ \E io \in IoAnswers(Min(load_register(Cur, REG_A2), MAX_IO_BYTES)),
          tail \in TailBytes :
          CommitTwin("ecall", <<io.rlen, io.bytes, tail>>,
                     ecall(Cur, io), ecall(Twin, WithTail(io, tail)))

TwinTrap ==
    /\ TwinRunning
    /\ \E cause \in Causes :
          CommitTwin("trap", <<cause>>, trap(Cur, cause), trap(Twin, cause))

TwinMret ==
    /\ TwinRunning
    /\ CommitTwin("mret", <<>>, mret(Cur), mret(Twin))

TwinSuspend ==
    /\ TwinRunning
    /\ CommitTwin("suspend", <<>>, suspend(Cur), suspend(Twin))

TwinResume ==
    /\ TwinRunning
    /\ CommitTwin("resume", <<>>, resume(Cur), resume(Twin))

NextTwin == TwinEcall \/ TwinTrap \/ TwinMret \/ TwinSuspend \/ TwinResume

SpecTwin == InitTwin /\ [][NextTwin]_vars

---------------------------------------------------------------------------
(* The Keccak syscall (SysKeccak::syscall in                                *)
(* risc0/zkvm/src/host/server/exec/syscall/keccak.rs).  The context's       *)
(* load_register and load_region and the permutation f1600 are outside the  *)
(* source: load_register reads the bank of the current mode, load_region    *)
(* returns the guest bytes or fails when the region leaves the address      *)
(* space, and f1600 is a fixed bijection on the 25 lanes that stands for    *)
(* the permutation.  A lane is a u64, here its 8 little-endian bytes.       *)

REG_A3 == 13
KECCAK_LANES == 25
LANE_BYTES == 8
LANE_WORDS == LANE_BYTES \div WORD_SIZE

load_region_fails(addr, size) == add_overflows(addr, size)
load_region(s, addr, size) == peek(s, addr, size)

\* bytemuck::cast_slice of the region to 25 u64
cast_lanes(bytes) ==
    [i \in 1 .. KECCAK_LANES |-> [k \in 1 .. LANE_BYTES |-> bytes[LANE_BYTES * (i - 1) + k]]]

f1600(lanes) ==
    [i \in 1 .. KECCAK_LANES |->
        [k \in 1 .. LANE_BYTES |->
            (lanes[(i % KECCAK_LANES) + 1][(k % LANE_BYTES) + 1] + k) % BYTE]]

\* bytemuck::cast_slice of the 25 u64 to 50 u32
cast_words(lanes) ==
    [w \in 1 .. KECCAK_LANES * LANE_WORDS |->
        from_le_bytes(lanes[((w - 1) \div LANE_WORDS) + 1],
                      WORD_SIZE * ((w - 1) % LANE_WORDS))]

\* the syscall that counts the invocation before it loads the region
syscall_counts_first(s, to_guest, count) ==
    LET buf_ptr == load_register(s, REG_A3)
        words == cast_words(f1600(cast_lanes(load_region(s, buf_ptr, KECCAK_LANES * LANE_BYTES))))
    IN  IF load_region_fails(buf_ptr, KECCAK_LANES * LANE_BYTES)
        THEN [ret |-> "err", res |-> <<>>, to_guest |-> to_guest, count |-> count + 1]
        ELSE IF Len(to_guest) # Len(words)
        THEN [ret |-> "panic", res |-> <<>>, to_guest |-> to_guest, count |-> count + 1]
        ELSE [ret |-> "ok", res |-> <<0, 0>>, to_guest |-> words, count |-> count + 1]

\* to_guest is the caller's output buffer, count the Keccak counter of the
\* syscall table; clone_from_slice panics when the lengths differ
syscall(s, to_guest, count) ==
    LET buf_ptr == load_register(s, REG_A3)
        words == cast_words(f1600(cast_lanes(load_region(s, buf_ptr, KECCAK_LANES * LANE_BYTES))))
    IN  IF load_region_fails(buf_ptr, KECCAK_LANES * LANE_BYTES)
        THEN [ret |-> "err", res |-> <<>>, to_guest |-> to_guest, count |-> count]
        ELSE IF Len(to_guest) # Len(words)
        THEN [ret |-> "panic", res |-> <<>>, to_guest |-> to_guest, count |-> count]
        ELSE [ret |-> "ok", res |-> <<0, 0>>, to_guest |-> words, count |-> count + 1]

(* SpecKeccak: the guest sets A3 and writes words of its buffer, and calls  *)
(* the syscall with an output buffer of the right or of another length.     *)

MaxKeccakOps == 3

\* an aligned buffer, an unaligned one, and one that leaves the address space
KeccakPtrs == {1024, 1026, U32 - 100}
KeccakCounts == {0, 5}
KeccakOutLens == {KECCAK_LANES * LANE_WORDS, KECCAK_LANES}
KeccakStores == {<<waddr(1024), 4660>>, <<waddr(1024) + 1, 0>>, <<waddr(1024) + 50, 22136>>}

KeccakMem(ptr) ==
    LET m == [a \in waddr(1024) .. waddr(1024) + KECCAK_LANES * LANE_WORDS + 1 |->
                  ((a * 37) % (U32 - 1)) + 1]
    IN  store_u32(m, waddr(USER_REGS_ADDR) + REG_A3, ptr)

InitKeccak ==
    /\ pc \in InitPcs
    /\ mode = 0
    /\ \E ptr \in KeccakPtrs : mem = KeccakMem(ptr)
    /\ metrics \in KeccakCounts
    /\ last = [op |-> "init", arg |-> <<>>, ret |-> "none", err |-> "",
               hooks |-> <<>>, trace |-> <<>>, log |-> <<>>,
               pc0 |-> pc, mode0 |-> mode, mem0 |-> mem,
               res |-> <<>>, to_guest |-> <<>>, count0 |-> metrics,
               first |-> metrics, succ |-> 0]
    /\ susp = [valid |-> FALSE, pc |-> 0, mode |-> 0]
    /\ nops = 0

\* last.first is the counter at the start and last.succ the number of
\* invocations that have returned Ok since
CommitKeccak(op, arg, m, r) ==
    /\ pc' = pc
    /\ mode' = mode
    /\ mem' = m
    /\ metrics' = r.count
    /\ last' = [op |-> op, arg |-> arg, ret |-> r.ret, err |-> "",
                hooks |-> <<>>, trace |-> <<>>, log |-> <<>>,
                pc0 |-> pc, mode0 |-> mode, mem0 |-> mem,
                res |-> r.res, to_guest |-> r.to_guest, count0 |-> metrics,
                first |-> last.first,
                succ |-> IF r.ret = "ok" THEN last.succ + 1 ELSE last.succ]
    /\ susp' = susp
    /\ nops' = nops + 1

Keccak ==
    /\ nops < MaxKeccakOps
    /\ \E n \in KeccakOutLens :
          CommitKeccak("keccak", <<n>>, mem, syscall(Cur, [w \in 1 .. n |-> 0], metrics))

KeccakGuestSetsA3 ==
    /\ nops < MaxKeccakOps
    /\ \E ptr \in KeccakPtrs :
          CommitKeccak("store_register", <<REG_A3, ptr>>,
                       store_register(Cur, REG_A3, ptr).mem,
                       [ret |-> "none", res |-> <<>>, to_guest |-> <<>>, count |-> metrics])

KeccakGuestStores ==
    /\ nops < MaxKeccakOps
    /\ \E st \in KeccakStores :
          CommitKeccak("store_memory", st, store_memory(Cur, st[1], st[2]).mem,
                       [ret |-> "none", res |-> <<>>, to_guest |-> <<>>, count |-> metrics])

NextKeccak == Keccak \/ KeccakGuestSetsA3 \/ KeccakGuestStores

SpecKeccak == InitKeccak /\ [][NextKeccak]_vars

---------------------------------------------------------------------------
(* One call from either mode: SpecMix starts as SpecIO does, in user or in  *)
(* machine mode, with the two dispatch tables installed and A7 of the user  *)
(* bank set, and takes an ecall, a trap, an mret, a suspend or a resume.    *)

MaxMixOps == 1

MixModes == {0, 1}
\* ecall-table entries: an aligned and a misaligned address in kernel memory
MixEntryValues == {HandlerAddr, HandlerAddr + 1}

InitMix ==
    /\ pc \in IoPcs
    /\ mode \in MixModes
    /\ \E code \in IoCodes, ptr \in IoPtrs, len \in IoLens, e \in MixEntryValues :
          mem = store_u32(store_u32(store_u32(store_u32(IoMem(code, ptr, len),
                    waddr(ECALL_DISPATCH_ADDR) + EcallIdx, e),
                    waddr(TRAP_DISPATCH_ADDR) + EnvironmentCallFromUserMode,
                    HandlerAddr + 64),
                    waddr(TRAP_DISPATCH_ADDR) + IllegalInstruction, HandlerAddr + 128),
                    waddr(USER_REGS_ADDR) + REG_A7, EcallIdx)
    /\ last = [op |-> "init", arg |-> <<>>, ret |-> "none", err |-> "",
               hooks |-> <<>>, trace |-> <<>>, log |-> <<>>,
               pc0 |-> pc, mode0 |-> mode, mem0 |-> mem]
    /\ susp = [valid |-> FALSE, pc |-> 0, mode |-> 0]
    /\ nops = 0
    /\ metrics = 0

MixRunning == last.ret # "fatal" /\ nops < MaxMixOps

MixEcall ==
    /\ MixRunning
    /\ \E io \in IoAnswers(Min(load_register(Cur, REG_A2), MAX_IO_BYTES)) :
          Commit("ecall", <<io.rlen, io.bytes>>, ecall(Cur, io))

MixTrap ==
    /\ MixRunning
    /\ \E cause \in Causes : Commit("trap", <<cause>>, trap(Cur, cause))

MixMret ==
    /\ MixRunning
    /\ Commit("mret", <<>>, mret(Cur))

MixSuspend ==
    /\ MixRunning
    /\ Commit("suspend", <<>>, suspend(Cur))

MixResume ==
    /\ MixRunning
    /\ Commit("resume", <<>>, resume(Cur))

NextMix == MixEcall \/ MixTrap \/ MixMret \/ MixSuspend \/ MixResume

SpecMix == InitMix /\ [][NextMix]_vars

---------------------------------------------------------------------------
(* The host-read ecall step by step: SpecLoop starts as SpecIO does, at a   *)
(* host-read ecall, and takes ecall_read one step at a time: the setup, an  *)
(* iteration of a byte loop, the start of an iteration of the word loop,    *)
(* a slot of its batch, its end, the exit of a loop, the return.  last.at   *)
(* is the place in ecall_read ("setup", "bytes" for the first byte loop,    *)
(* "words", "slots" inside a batch, "tail" for the second byte loop,        *)
(* "done"); last.ptr, last.i, last.rlen and last.cur are the locals ptr, i, *)
(* rlen and cur_state, last.words and last.j the locals words and j of the  *)
(* batch; last.byte_iters and last.batches count the iterations of the      *)
(* byte loops and of the word loop, and last.rlen0 is rlen at the start of  *)
(* the last iteration.  The code runs on without waiting for anything, so   *)
(* every enabled step is taken.                                             *)

InitLoop ==
    /\ pc \in IoPcs
    /\ mode = 1
    /\ \E ptr \in IoPtrs, len \in IoLens : mem = IoMem(HOST_ECALL_READ, ptr, len)
    /\ last = [op |-> "ecall", at |-> "setup", arg |-> <<0, <<>>>>,
               ret |-> "none", err |-> "",
               hooks |-> <<>>, trace |-> <<>>, log |-> <<>>,
               pc0 |-> pc, mode0 |-> mode, mem0 |-> mem,
               ptr |-> 0, i |-> 0, rlen |-> 0, cur |-> "MachineEcall",
               words |-> 0, j |-> 0, rlen0 |-> 0,
               byte_iters |-> 0, batches |-> 0]
    /\ susp = [valid |-> FALSE, pc |-> 0, mode |-> 0]
    /\ nops = 0
    /\ metrics = 0

LoopCur ==
    [s |-> [pc |-> pc, mode |-> mode, mem |-> mem, hooks |-> last.hooks,
            trace |-> last.trace, log |-> last.log, ret |-> "none", err |-> ""],
     ptr |-> last.ptr, i |-> last.i, rlen |-> last.rlen, cur |-> last.cur]

\* the step leaves the locals l, words and j and goes on at the place at, or
\* returns the error of l.s
CommitLoop(l, at, arg, words, j, rlen0, byte_iters, batches) ==
    /\ pc' = l.s.pc
    /\ mode' = l.s.mode
    /\ mem' = l.s.mem
    /\ last' = [last EXCEPT
                  !.at = IF l.s.ret = "fatal" THEN "done" ELSE at,
                  !.arg = arg,
                  !.ret = IF l.s.ret = "fatal" THEN "fatal"
                          ELSE IF at = "done" THEN "false" ELSE "none",
                  !.err = l.s.err,
                  !.hooks = l.s.hooks, !.trace = l.s.trace, !.log = l.s.log,
                  !.ptr = l.ptr, !.i = l.i, !.rlen = l.rlen, !.cur = l.cur,
                  !.words = words, !.j = j, !.rlen0 = rlen0,
                  !.byte_iters = byte_iters, !.batches = batches]
    /\ susp' = susp
    /\ nops' = IF l.s.ret = "fatal" \/ at = "done" THEN 1 ELSE 0
    /\ metrics' = metrics

\* a step that moves to the place at and changes no local
MoveTo(at) ==
    CommitLoop(LoopCur, at, last.arg, last.words, last.j, last.rlen0,
               last.byte_iters, last.batches)

LoopSetup ==
    /\ last.at = "setup"
    /\ \E io \in IoAnswers(Min(load_register(Cur, REG_A2), MAX_IO_BYTES)) :
          \E l \in {read_setup(loaded_register(Cur, REG_A7), io.rlen, io.bytes)} :
              CommitLoop(l, "bytes", <<io.rlen, io.bytes>>, 0, 0, 0, 0, 0)

LoopByte ==
    /\ last.at \in {"bytes", "tail"}
    /\ bytes_loop_runs(LoopCur)
    /\ \E l \in {read_byte_step(LoopCur, last.arg[2])} :
          CommitLoop(l, last.at, last.arg, last.words, last.j, last.rlen,
                     last.byte_iters + 1, last.batches)

LoopBytesEnd ==
    /\ last.at = "bytes"
    /\ ~bytes_loop_runs(LoopCur)
    /\ MoveTo("words")

LoopBatchStart ==
    /\ last.at = "words"
    /\ words_loop_runs(LoopCur)
    /\ CommitLoop(LoopCur, "slots", last.arg, batch_words(LoopCur), 0, last.rlen,
                  last.byte_iters, last.batches)

LoopSlot ==
    /\ last.at = "slots"
    /\ last.j < MAX_IO_WORDS
    /\ \E l \in {read_slot_step(LoopCur, last.arg[2], last.words, last.j)} :
          CommitLoop(l, "slots", last.arg, last.words, last.j + 1, last.rlen0,
                     last.byte_iters, last.batches)

LoopBatchEnd ==
    /\ last.at = "slots"
    /\ ~(last.j < MAX_IO_WORDS)
    /\ \E l \in {read_batch_end(LoopCur)} :
          CommitLoop(l, "words", last.arg, last.words, last.j, last.rlen0,
                     last.byte_iters, last.batches + 1)

LoopWordsEnd ==
    /\ last.at = "words"
    /\ ~words_loop_runs(LoopCur)
    /\ MoveTo("tail")

LoopReturn ==
    /\ last.at = "tail"
    /\ ~bytes_loop_runs(LoopCur)
    /\ MoveTo("done")

NextLoop ==
    \/ LoopSetup
    \/ LoopByte
    \/ LoopBytesEnd
    \/ LoopBatchStart
    \/ LoopSlot
    \/ LoopBatchEnd
    \/ LoopWordsEnd
    \/ LoopReturn

SpecLoop == InitLoop /\ [][NextLoop]_vars /\ WF_vars(NextLoop)

---------------------------------------------------------------------------
(* Entering the kernel and returning: SpecRet starts in user mode, at a pc  *)
(* in user memory or at the last word of the address space (where a jump    *)
(* of the guest can take it and the fetch is refused), and follows the      *)
(* calls between an entry and the mret that returns from it.                *)
(* last.entered records the pc of the last call that went from user to      *)
(* machine mode and whether the MEPC slot has been stored to since.         *)

MaxRetOps == 3

RetPcs == {512, U32 - 4}

InitRet ==
    /\ pc \in RetPcs
    /\ mode = 0
    /\ \E e \in EntryValues, t \in TrapEntryValues :
          mem = store_u32(store_u32(store_u32(store_u32(<<>>,
                    waddr(ECALL_DISPATCH_ADDR) + EcallIdx, e),
                    waddr(TRAP_DISPATCH_ADDR) + EnvironmentCallFromUserMode, t),
                    waddr(TRAP_DISPATCH_ADDR) + IllegalInstruction, HandlerAddr + 128),
                    waddr(USER_REGS_ADDR) + REG_A7, EcallIdx)
    /\ last = [op |-> "init", arg |-> <<>>, ret |-> "none", err |-> "",
               hooks |-> <<>>, trace |-> <<>>, log |-> <<>>,
               pc0 |-> pc, mode0 |-> mode, mem0 |-> mem,
               entered |-> [valid |-> FALSE, pc |-> 0]]
    /\ susp = [valid |-> FALSE, pc |-> 0, mode |-> 0]
    /\ nops = 0
    /\ metrics = 0

StoresMepc(r) ==
    \E k \in 1 .. Len(r.trace) :
        r.trace[k][1] = "store_u32" /\ r.trace[k][2] = waddr(MEPC_ADDR)

CommitRet(op, arg, r) ==
    /\ pc' = r.pc
    /\ mode' = r.mode
    /\ mem' = r.mem
    /\ last' = [op |-> op, arg |-> arg, ret |-> r.ret, err |-> r.err,
                hooks |-> r.hooks, trace |-> r.trace, log |-> r.log,
                pc0 |-> pc, mode0 |-> mode, mem0 |-> mem,
                entered |-> IF mode = 0 /\ r.mode # 0 /\ op \in {"ecall", "trap"}
                            THEN [valid |-> TRUE, pc |-> pc]
                            ELSE [last.entered EXCEPT !.valid = @ /\ ~StoresMepc(r)]]
    /\ susp' = susp
    /\ nops' = nops + 1
    /\ metrics' = metrics

RetRunning == last.ret # "fatal" /\ nops < MaxRetOps

RetEcall ==
    /\ RetRunning
    /\ \E io \in HostAnswers(Min(load_register(Cur, REG_A2), MAX_IO_BYTES)) :
          CommitRet("ecall", <<io.rlen, io.bytes>>, ecall(Cur, io))

RetTrap ==
    /\ RetRunning
    /\ \E cause \in Causes : CommitRet("trap", <<cause>>, trap(Cur, cause))

RetMret ==
    /\ RetRunning
    /\ CommitRet("mret", <<>>, mret(Cur))

RetSuspend ==
    /\ RetRunning
    /\ CommitRet("suspend", <<>>, suspend(Cur))

RetResume ==
    /\ RetRunning
    /\ CommitRet("resume", <<>>, resume(Cur))

RetStoreMemory ==
    /\ RetRunning
    /\ \E addr \in MemTargets, word \in MemWords :
          CommitRet("store_memory", <<addr, word>>,
                    Return(store_memory(Cur, addr, word), "ok"))

NextRet == RetEcall \/ RetTrap \/ RetMret \/ RetSuspend \/ RetResume \/ RetStoreMemory

SpecRet == InitRet /\ [][NextRet]_vars

---------------------------------------------------------------------------
(* Reading the last call: the state it started from, what it left, and     *)
(* what the code read from that state.                                     *)

Pre == [pc |-> last.pc0, mode |-> last.mode0, mem |-> last.mem0,
        hooks |-> <<>>, trace |-> <<>>, log |-> <<>>, ret |-> "none", err |-> ""]

Outcome == [pc |-> pc, mode |-> mode, mem |-> mem, hooks |-> last.hooks,
            trace |-> last.trace, log |-> last.log, ret |-> last.ret,
            err |-> last.err]

Mepc(m) == load_u32(m, waddr(MEPC_ADDR))

UserEcallCall == last.op = "ecall" /\ last.mode0 = 0
PreDispatchIdx == load_u32(last.mem0, waddr(USER_REGS_ADDR) + REG_A7)
PreDispatchAddr == load_u32(last.mem0, waddr(ECALL_DISPATCH_ADDR) + PreDispatchIdx)

TrapCall == last.op = "trap"
PreTrapAddr == load_u32(last.mem0, waddr(TRAP_DISPATCH_ADDR) + last.arg[1])
TrapHookCalled == \E k \in 1 .. Len(last.hooks) : last.hooks[k][1] = "trap"

ValidEntry(addr) == is_aligned(addr) /\ is_kernel_memory(addr)

\* C1: a user-mode ecall whose dispatch index is >= SYSCALL_MAX, or whose
\* dispatch-table entry is misaligned or below the kernel, does exactly what
\* trap(EnvironmentCallFromUserMode) does, and pc is not set to the entry by a
\* successful entry into the handler.
C1_RejectedUserEcallTraps ==
    (UserEcallCall /\ (\/ PreDispatchIdx >= SYSCALL_MAX
                       \/ ~is_aligned(PreDispatchAddr)
                       \/ PreDispatchAddr < KERNEL_START_ADDR))
        => /\ Outcome = trap(Pre, EnvironmentCallFromUserMode)
           /\ last.ret # "true"

\* C2: a user-mode ecall with A7 < SYSCALL_MAX whose dispatch-table entry is
\* word-aligned and at or above the kernel boundary enters the handler: pc is
\* the entry, the mode is machine, MEPC holds the ecall's pc, no trap hook is
\* called and the ecall returns true.
C2_ValidUserEcallEnters ==
    (UserEcallCall /\ PreDispatchIdx < SYSCALL_MAX /\ is_aligned(PreDispatchAddr)
                   /\ PreDispatchAddr >= KERNEL_START_ADDR)
        => /\ pc = PreDispatchAddr
           /\ mode = 1
           /\ Mepc(mem) = last.pc0
           /\ ~TrapHookCalled
           /\ last.ret = "true"

\* C3: whenever an ecall or a trap switches the mode from user to machine, the
\* pc it installs is word-aligned and lies in kernel memory.
C3_EnteredPcIsKernelAligned ==
    (last.op \in {"ecall", "trap"} /\ last.mode0 = 0 /\ mode # 0)
        => is_aligned(pc) /\ is_kernel_memory(pc)

\* C4: mret called in user mode fails fatally and leaves pc, mode and all of
\* memory as they were.
C4_MretInUserModeFails ==
    (last.op = "mret" /\ last.mode0 = 0)
        => /\ last.ret = "fatal"
           /\ pc = last.pc0 /\ mode = last.mode0 /\ mem = last.mem0

C4_Witness == last.op = "mret" /\ last.mode0 = 0 /\ Mepc(last.mem0) # 0

\* C5: trap(cause) called in machine mode fails fatally, whatever the cause and
\* the trap dispatch table hold; pc, mode and MEPC are unchanged and the
\* trap(cause) hook is not called.
C5_TrapInMachineModeFails ==
    (TrapCall /\ last.mode0 # 0)
        => /\ last.ret = "fatal"
           /\ pc = last.pc0 /\ mode = last.mode0
           /\ Mepc(mem) = Mepc(last.mem0)
           /\ ~TrapHookCalled

C5_Witness == TrapCall /\ last.mode0 # 0 /\ ValidEntry(PreTrapAddr) /\ pc # Mepc(mem)

\* C6 as stated: mret in machine mode always sets pc to MEPC + 4 and the mode
\* to user, returns true and writes no memory.
C6_MretAlwaysReturns ==
    (last.op = "mret" /\ last.mode0 # 0)
        => /\ pc = Mepc(last.mem0) + WORD_SIZE
           /\ mode = 0
           /\ last.ret = "true"
           /\ mem = last.mem0

\* C6, amended: mret in machine mode, when MEPC + 4 does not leave the address
\* space, sets pc to MEPC + 4 and the mode to user, returns true and writes no
\* memory.
C6_MretReturnsToMepcPlus4 ==
    (last.op = "mret" /\ last.mode0 # 0 /\ Mepc(last.mem0) + WORD_SIZE < U32)
        => /\ pc = Mepc(last.mem0) + WORD_SIZE
           /\ mode = 0
           /\ last.ret = "true"
           /\ mem = last.mem0

C6_Witness ==
    /\ last.op = "mret" /\ last.mode0 # 0 /\ last.ret = "true"
    /\ Mepc(last.mem0) = 512 /\ pc = 516 /\ last.pc0 # 516

\* C7: trap(cause) in user mode with a word-aligned entry in kernel memory saves
\* the pc in MEPC, sets pc to the entry and the mode to machine, calls the
\* trap(cause) hook (after trap_rewind) and returns false.
C7_TrapEntersHandler ==
    (TrapCall /\ last.mode0 = 0 /\ ValidEntry(PreTrapAddr))
        => /\ Mepc(mem) = last.pc0
           /\ pc = PreTrapAddr
           /\ mode = 1
           /\ last.hooks = << <<"trap_rewind">>, <<"trap", last.arg[1]>> >>
           /\ last.ret = "false"

C7_Witness ==
    /\ TrapCall /\ last.mode0 = 0 /\ ValidEntry(PreTrapAddr)
    /\ last.arg[1] = EnvironmentCallFromUserMode /\ Mepc(last.mem0) # last.pc0

\* C8: trap(cause) whose dispatch-table entry is misaligned or outside kernel
\* memory fails with the invalid-trap-address error; pc, mode and MEPC are
\* unchanged and the trap(cause) hook is not called.
C8_InvalidTrapEntryFails ==
    (TrapCall /\ ~ValidEntry(PreTrapAddr))
        => /\ last.ret = "fatal" /\ last.err = "Invalid trap address"
           /\ pc = last.pc0 /\ mode = last.mode0
           /\ Mepc(mem) = Mepc(last.mem0)
           /\ ~TrapHookCalled

C8_Witness ==
    TrapCall /\ last.mode0 = 0 /\ is_aligned(PreTrapAddr) /\ ~is_kernel_memory(PreTrapAddr)

\* C9: after a resume, if no call since the last suspend changed the two
\* suspend slots, pc and mode are those the suspend started from, whatever they
\* were set to in between.
C9_SuspendResumeRoundTrip ==
    (last.op = "resume" /\ susp.valid) => pc = susp.pc /\ mode = susp.mode

C9_Witness ==
    /\ last.op = "resume" /\ susp.valid
    /\ last.pc0 # susp.pc /\ last.mode0 # susp.mode /\ susp.mode = 2

\* The words load_register can read: the slots of the two register banks
RegisterSlots ==
    {waddr(MACHINE_REGS_ADDR) + i : i \in 0 .. REG_MAX - 1}
        \cup {waddr(USER_REGS_ADDR) + i : i \in 0 .. REG_MAX - 1}

ChangedWords == {a \in DOMAIN mem \cup DOMAIN last.mem0 :
                    load_u32(mem, a) # load_u32(last.mem0, a)}

\* C10: a store_register call, in either mode and with any index and value,
\* leaves what load_register(0) reads in both modes unchanged; a store to
\* index 0 changes no slot of either register bank (it goes to a word that
\* load_register never reads).
C10_ZeroRegisterNeverWritten ==
    (last.op = "store_register")
        => /\ load_u32(mem, waddr(MACHINE_REGS_ADDR) + REG_ZERO)
                = load_u32(last.mem0, waddr(MACHINE_REGS_ADDR) + REG_ZERO)
           /\ load_u32(mem, waddr(USER_REGS_ADDR) + REG_ZERO)
                = load_u32(last.mem0, waddr(USER_REGS_ADDR) + REG_ZERO)
           /\ last.arg[1] = REG_ZERO => ChangedWords \cap RegisterSlots = {}

C10_Witness ==
    /\ last.op = "store_register" /\ last.arg[1] = REG_ZERO /\ last.mode0 # 0
    /\ ChangedWords = {waddr(SAFE_WRITE_ADDR)}


---------------------------------------------------------------------------
(* Reading the last machine ecall: its arguments in the machine bank        *)
(* before the call, the host's answer, and what the call logged.            *)

MReg(m, idx) == load_u32(m, waddr(MACHINE_REGS_ADDR) + idx)
MachineEcallOf(code) ==
    last.op = "ecall" /\ last.mode0 # 0 /\ MReg(last.mem0, REG_A7) = code
ReadCall == MachineEcallOf(HOST_ECALL_READ)
WriteCall == MachineEcallOf(HOST_ECALL_WRITE)
IoPtr == MReg(last.mem0, REG_A1)
IoLen == MReg(last.mem0, REG_A2)
IoRlen == last.arg[1]
IoBytes == last.arg[2]
IoValid == ~add_overflows(IoPtr, IoLen) /\ IoLen <= MAX_IO_BYTES
PcFits == ~add_overflows(last.pc0, WORD_SIZE)

IsSetPc(e) == e[1] = "set_pc"
IsReport(e) == e[1] = "on_ecall_cycle"
IsHostRead(e) == e[1] = "host_read"
IsHostWrite(e) == e[1] = "host_write"
IsStoreU8(e) == e[1] = "store_u8"
IsStoreU32(e) == e[1] = "store_u32"
SetPcs == SelectSeq(last.trace, IsSetPc)
Reports == SelectSeq(last.hooks, IsReport)
Report(cur, next, s0, s1, s2) == <<"on_ecall_cycle", cur, next, s0, s1, s2>>
AdvancedOnce == SetPcs = << <<"set_pc", last.pc0 + WORD_SIZE>> >> /\ pc = last.pc0 + WORD_SIZE

\* C11 as stated: for every valid ptr and len = 0, the host-read and the
\* host-write ecall each advance pc exactly once, report one transition only,
\* the one into Decode, and leave A0 = 0.
C11_ZeroLenReportsOnlyDecode ==
    ((ReadCall \/ WriteCall) /\ IoValid /\ IoLen = 0) =>
        /\ last.ret = "false"
        /\ AdvancedOnce
        /\ Len(Reports) = 1
        /\ Reports[1][3] = "Decode"
        /\ MReg(mem, REG_A0) = 0

\* C11 amended: for every valid ptr and len = 0, when pc + 4 does not overflow
\* the address space, the host-read and the host-write ecall each advance pc
\* exactly once, report the dispatch transition (MachineEcall to HostReadSetup,
\* or MachineEcall to HostWrite) and then exactly one transition, into Decode,
\* and leave A0 = 0.
C11_ZeroLenIo ==
    ((ReadCall \/ WriteCall) /\ IoValid /\ IoLen = 0 /\ PcFits) =>
        /\ last.ret = "false"
        /\ AdvancedOnce
        /\ Reports =
              IF ReadCall
              THEN <<Report("MachineEcall", "HostReadSetup", 0, 0, 0),
                     Report("HostReadSetup", "Decode", waddr(IoPtr), subaddr(IoPtr), 0)>>
              ELSE <<Report("MachineEcall", "HostWrite", 0, 0, 0),
                     Report("HostWrite", "Decode", 0, 0, 0)>>
        /\ MReg(mem, REG_A0) = 0

C11_Witness ==
    /\ ReadCall /\ IoValid /\ IoLen = 0 /\ PcFits
    /\ ~is_aligned(IoPtr)
    /\ last.ret = "false"
    /\ MReg(last.mem0, REG_A0) # 0


ByteStores == SelectSeq(last.trace, IsStoreU8)
WordStores == SelectSeq(last.trace, IsStoreU32)
A0Slot == waddr(MACHINE_REGS_ADDR) + REG_A0
SpanWords(ptr, n) == {waddr(ptr + k) : k \in 0 .. n - 1}

\* C12: an ecall_read with len in 1 .. 3, at any alignment of ptr, writes
\* guest memory only through byte writes (every word store other than the one
\* of A0 belongs to a store_u8), the number of bytes written is the count
\* host_read returned, and no word outside [ptr, ptr + count) is modified.
C12_ShortReadByteWrites ==
    (ReadCall /\ IoValid /\ IoLen \in 1 .. WORD_SIZE - 1 /\ last.ret = "false") =>
        /\ Len(WordStores) = Len(ByteStores) + 1
        /\ Len(ByteStores) = IoRlen
        /\ ChangedWords \subseteq SpanWords(IoPtr, IoRlen) \cup {A0Slot}


\* the cur -> next pairs of the reported transitions, in order
Transitions == [k \in 1 .. Len(Reports) |-> <<Reports[k][2], Reports[k][3]>>]
OneBatchLens == {WORD_SIZE * n : n \in 1 .. MAX_IO_WORDS}

\* C13: an ecall_read with a word-aligned ptr to which host_read returns
\* rlen = len, a positive multiple of the word size that fits one batch, writes
\* the returned bytes as consecutive little-endian words at ptr, ptr + 4, ...,
\* sets A0 = rlen, advances pc exactly once (pc + 4 not overflowing) and
\* reports MachineEcall -> HostReadSetup -> HostReadWords -> Decode.
C13_AlignedBatchRead ==
    (/\ ReadCall /\ IoValid /\ PcFits
     /\ is_aligned(IoPtr) /\ IoLen \in OneBatchLens /\ IoRlen = IoLen) =>
        /\ last.ret = "false"
        /\ \A j \in 0 .. (IoLen \div WORD_SIZE) - 1 :
              load_u32(mem, waddr(IoPtr) + j) = from_le_bytes(IoBytes, WORD_SIZE * j)
        /\ MReg(mem, REG_A0) = IoRlen
        /\ AdvancedOnce
        /\ Transitions = << <<"MachineEcall", "HostReadSetup">>,
                            <<"HostReadSetup", "HostReadWords">>,
                            <<"HostReadWords", "Decode">> >>


HostWrites == SelectSeq(last.hooks, IsHostWrite)
\* the byte of memory m at byte address addr
GuestByte(m, addr) ==
    (load_u32(m, addr \div WORD_SIZE) \div (BYTE ^ (addr % WORD_SIZE))) % BYTE

\* C14 as stated: an ecall_write with ptr of any alignment and len <=
\* MAX_IO_BYTES (ptr + len within the address space) passes to host_write a
\* buffer of exactly len bytes, the guest bytes at ptr .. ptr + len in address
\* order, stores the count host_write returns into A0 and advances pc exactly
\* once.
C14_WritePassesSpan ==
    (WriteCall /\ IoValid) =>
        /\ last.ret = "false"
        /\ Len(HostWrites) = 1
        /\ Len(HostWrites[1][3]) = IoLen
        /\ \A k \in 1 .. IoLen : HostWrites[1][3][k] = GuestByte(last.mem0, IoPtr + k - 1)
        /\ MReg(mem, REG_A0) = IoRlen
        /\ AdvancedOnce

\* C14 amended: the same, for an ecall_write whose pc + 4 does not overflow
\* the address space.
C14_WritePassesSpanPcFits ==
    (WriteCall /\ IoValid /\ PcFits) =>
        /\ last.ret = "false"
        /\ HostWrites =
              << <<"host_write", MReg(last.mem0, REG_A0),
                   [k \in 1 .. IoLen |-> GuestByte(last.mem0, IoPtr + k - 1)]>> >>
        /\ MReg(mem, REG_A0) = IoRlen
        /\ AdvancedOnce

C14_Witness ==
    /\ WriteCall /\ IoValid /\ PcFits
    /\ last.ret = "false"
    /\ IoLen = 3
    /\ IoPtr % WORD_SIZE = 2
    /\ HostWrites[1][3] = <<FillByte(2), FillByte(3), FillByte(0)>>
    /\ IoRlen = 2
    /\ MReg(mem, REG_A0) # MReg(last.mem0, REG_A0)


\* C15: every ecall_write that returns without error, whatever len is, calls
\* host_write exactly once and reports exactly two transitions, MachineEcall
\* -> HostWrite before the call and HostWrite -> Decode after it; it has no
\* per-byte or per-word phase (no byte store, and no word store other than
\* the one of A0).
C15_WriteIsOnePhase ==
    (WriteCall /\ last.ret = "false") =>
        /\ Len(HostWrites) = 1
        /\ Len(last.hooks) = 3
        /\ last.hooks[1] = Report("MachineEcall", "HostWrite", 0, 0, 0)
        /\ last.hooks[2] = HostWrites[1]
        /\ last.hooks[3] = Report("HostWrite", "Decode", 0, 0, 0)
        /\ ByteStores = <<>>
        /\ WordStores = << <<"store_u32", A0Slot, IoRlen>> >>

C15_Witness ==
    /\ WriteCall
    /\ last.ret = "false"
    /\ IoLen = MAX_IO_BYTES
    /\ ~is_aligned(IoPtr)
    /\ Len(Reports) = 2


\* C16: every ecall_read that returns without error, for every alignment of
\* ptr, every len <= MAX_IO_BYTES and every returned count rlen <= len,
\* advances pc by one word exactly once.
C16_ReadAdvancesPcOnce ==
    (ReadCall /\ IoValid /\ IoRlen <= IoLen /\ last.ret = "false") => AdvancedOnce


ScratchSlot == waddr(SAFE_WRITE_ADDR)

\* C17: after an ecall_read that returns without error, for every ptr, every
\* len <= MAX_IO_BYTES and every host answer (rlen <= len, bytes b), every
\* guest byte ptr + k with k < rlen holds b[k], and every other byte of memory,
\* except register A0 and the scratch word, is what it was (a byte write
\* keeps the other three bytes of its word).
C17_ReadTransfersSpan ==
    (ReadCall /\ IoValid /\ IoRlen <= IoLen /\ last.ret = "false") =>
        /\ \A k \in 0 .. IoRlen - 1 : GuestByte(mem, IoPtr + k) = IoBytes[k + 1]
        /\ \A a \in ChangedWords \ {A0Slot, ScratchSlot} :
              \A off \in 0 .. WORD_SIZE - 1 :
                 LET addr == a * WORD_SIZE + off
                 IN  (addr < IoPtr \/ addr >= IoPtr + IoRlen) =>
                         GuestByte(mem, addr) = GuestByte(last.mem0, addr)


HostCalls == SelectSeq(last.hooks, IsHostRead) \o HostWrites
InvalidLengthErrors ==
    {"Invalid length in host read", "Invalid length (too big) in host read",
     "Invalid length in host write", "Invalid length (too big) in host write"}

\* C18: an ecall_read or ecall_write whose ptr + len overflows the address
\* space, or whose len exceeds MAX_IO_BYTES, fails with the fatal
\* invalid-length error, calls neither host_read nor host_write, and leaves pc,
\* A0 and all of memory as they were; any other request, len = MAX_IO_BYTES
\* included, is not rejected: the host is called once.
C18_InvalidLengthRejected ==
    (ReadCall \/ WriteCall) =>
        IF add_overflows(IoPtr, IoLen) \/ IoLen > MAX_IO_BYTES
        THEN /\ last.ret = "fatal"
             /\ last.err \in InvalidLengthErrors
             /\ HostCalls = <<>>
             /\ pc = last.pc0
             /\ mem = last.mem0
        ELSE /\ last.err \notin InvalidLengthErrors
             /\ Len(HostCalls) = 1

C18_Witness ==
    /\ ReadCall
    /\ IoLen = MAX_IO_BYTES + 1
    /\ ~add_overflows(IoPtr, IoLen)
    /\ last.ret = "fatal"
    /\ HostCalls = <<>>


TerminateCall == MachineEcallOf(HOST_ECALL_TERMINATE)
PoseidonCall == MachineEcallOf(HOST_ECALL_POSEIDON2)
UReg(m, idx) == load_u32(m, waddr(USER_REGS_ADDR) + idx)

\* C19: a machine-mode ecall with A7 = TERMINATE calls on_terminate(a0, a1)
\* exactly once, with a0 and a1 read from the user register bank, between the
\* reports MachineEcall -> Terminate and Terminate -> Suspend, reports those two
\* transitions only, does not advance pc (nor write memory) and returns false.
C19_TerminateHalts ==
    TerminateCall =>
        /\ last.hooks =
              <<Report("MachineEcall", "Terminate", 0, 0, 0),
                <<"on_terminate", UReg(last.mem0, REG_A0), UReg(last.mem0, REG_A1)>>,
                Report("Terminate", "Suspend", 0, 0, 0)>>
        /\ SetPcs = <<>>
        /\ pc = last.pc0
        /\ mem = last.mem0
        /\ last.ret = "false"

C19_Witness ==
    /\ TerminateCall
    /\ last.ret = "false"
    /\ UReg(last.mem0, REG_A0) # MReg(last.mem0, REG_A0)
    /\ UReg(last.mem0, REG_A1) # MReg(last.mem0, REG_A1)
    /\ last.hooks[2] = <<"on_terminate", UserA0, UserA1>>

\* C20 as stated: a machine-mode ecall with A7 = POSEIDON2 advances pc by one
\* word exactly once, reports exactly one transition, MachineEcall ->
\* PoseidonEntry, changes no register and no memory, and returns false.
C20_PoseidonYields ==
    PoseidonCall =>
        /\ AdvancedOnce
        /\ last.hooks = <<Report("MachineEcall", "PoseidonEntry", 0, 0, 0)>>
        /\ mem = last.mem0
        /\ last.ret = "false"

\* C20 amended: the same, for an ecall whose pc + 4 does not overflow the
\* address space; the transition is reported after pc was advanced.
C20_PoseidonYieldsPcFits ==
    (PoseidonCall /\ PcFits) =>
        /\ AdvancedOnce
        /\ last.trace = << <<"set_pc", last.pc0 + WORD_SIZE>>,
                           Report("MachineEcall", "PoseidonEntry", 0, 0, 0) >>
        /\ last.hooks = <<Report("MachineEcall", "PoseidonEntry", 0, 0, 0)>>
        /\ mem = last.mem0
        /\ last.ret = "false"

C20_Witness ==
    /\ PoseidonCall /\ PcFits
    /\ last.ret = "false"
    /\ pc = HandlerAddr + WORD_SIZE
    /\ Len(Reports) = 1


MachineEcallCall == last.op = "ecall" /\ last.mode0 # 0
KnownCodes == {HOST_ECALL_TERMINATE, HOST_ECALL_READ, HOST_ECALL_WRITE,
               HOST_ECALL_POSEIDON2}

\* C21: a machine-mode ecall whose A7 is none of TERMINATE, HOST_READ,
\* HOST_WRITE and POSEIDON2 ends in the fatal unimplemented fault: it reports
\* no transition, calls no host callback, and leaves pc, mode and memory as
\* they were.
C21_UnknownCodeIsFatal ==
    (MachineEcallCall /\ MReg(last.mem0, REG_A7) \notin KnownCodes) =>
        /\ last.ret = "fatal"
        /\ last.err = "unimplemented"
        /\ last.hooks = <<>>
        /\ last.trace = <<>>
        /\ pc = last.pc0
        /\ mode = last.mode0
        /\ mem = last.mem0

C21_Witness ==
    /\ MachineEcallCall
    /\ MReg(last.mem0, REG_A7) \notin KnownCodes
    /\ last.ret = "fatal"
    /\ IoLen > 0


CheckAddr == last.arg[1]
StateUntouched ==
    pc = last.pc0 /\ mode = last.mode0 /\ mem = last.mem0 /\ last.trace = <<>>

\* C22: check_insn_load(addr) is false for every address in the zero page in
\* both modes, false in user mode for every address at or above the kernel
\* start, and true for every other address and mode; it changes no state.
C22_InsnLoadCheck ==
    (last.op = "check_insn_load") =>
        /\ last.ret = IF CheckAddr < ZERO_PAGE_END_ADDR THEN "false"
                      ELSE IF last.mode0 = 0 /\ CheckAddr >= KERNEL_START_ADDR THEN "false"
                      ELSE "true"
        /\ StateUntouched

C22_Witness ==
    /\ last.op = "check_insn_load"
    /\ last.mode0 # 0
    /\ CheckAddr = ZERO_PAGE_END_ADDR - 1
    /\ last.ret = "false"

\* C23: check_data_load(addr) and check_data_store(addr) are true for every
\* address in machine mode and, in user mode, true exactly for the addresses of
\* the user region; the two agree on every mode and address and change no
\* state.
C23_DataChecks ==
    (last.op \in {"check_data_load", "check_data_store"}) =>
        /\ last.ret = IF last.mode0 # 0 THEN "true"
                      ELSE IF CheckAddr >= ZERO_PAGE_END_ADDR /\ CheckAddr < KERNEL_START_ADDR
                           THEN "true"
                      ELSE "false"
        /\ check_data_load(Pre, CheckAddr) = check_data_store(Pre, CheckAddr)
        /\ StateUntouched

C23_Witness ==
    /\ last.op = "check_data_store"
    /\ last.mode0 # 0
    /\ CheckAddr = KERNEL_START_ADDR
    /\ last.ret = "true"


\* positions in the log of the last call
SetPcAt == {k \in 1 .. Len(last.trace) : IsSetPc(last.trace[k])}
ReportAt == {k \in 1 .. Len(last.trace) : IsReport(last.trace[k])}
AdvancingEcall ==
    /\ ReadCall \/ WriteCall \/ PoseidonCall
    /\ last.ret = "false"
    /\ SetPcAt # {}

\* C24 as stated: in every machine ecall that advances pc (host read, host
\* write, Poseidon2) every transition is reported exactly once, and all of
\* them are reported before pc is advanced.
C24_ReportsBeforePcAdvance ==
    AdvancingEcall =>
        /\ \A j, k \in ReportAt : j # k => last.trace[j] # last.trace[k]
        /\ \A k \in ReportAt, a \in SetPcAt : k < a

\* C24 amended: in every machine ecall that advances pc, every transition is
\* reported exactly once; pc is advanced once, and the transition that ends
\* the ecall (into Decode, or into PoseidonEntry) is reported right after the
\* advance, as the last thing the ecall does; every other transition is
\* reported before the advance.
C24_LastReportFollowsPcAdvance ==
    AdvancingEcall =>
        /\ \A j, k \in ReportAt : j # k => last.trace[j] # last.trace[k]
        /\ SetPcAt = {Len(last.trace) - 1}
        /\ Len(last.trace) \in ReportAt
        /\ last.trace[Len(last.trace)][3] \in {"Decode", "PoseidonEntry"}
        /\ \A k \in ReportAt : k < Len(last.trace) => last.trace[k][3] \notin {"Decode", "PoseidonEntry"}

C24_Witness ==
    /\ AdvancingEcall
    /\ ReadCall
    /\ IoRlen = 2 * WORD_SIZE * MAX_IO_WORDS
    /\ Len(Reports) = 4


KeccakCall == last.op = "keccak"
KeccakPtr == load_u32(last.mem0, waddr(USER_REGS_ADDR) + REG_A3)
\* the 25 lanes of guest memory at the address in A3 before the call
KeccakInput ==
    [i \in 1 .. KECCAK_LANES |->
        [k \in 1 .. LANE_BYTES |->
            GuestByte(last.mem0, KeccakPtr + LANE_BYTES * (i - 1) + (k - 1))]]

\* C26: an invocation of the Keccak syscall that returns Ok has read the 25
\* lanes at the address in A3, has written their permutation to the output
\* buffer, returns (0, 0) and has incremented the Keccak counter of the
\* syscall table by exactly 1; an invocation that does not return Ok, the one
\* that fails loading the guest region included, leaves the counter alone; so
\* the counter is its first value plus the number of invocations that returned
\* Ok.
C26_KeccakCounts ==
    /\ metrics = last.first + last.succ
    /\ KeccakCall =>
          /\ load_region_fails(KeccakPtr, KECCAK_LANES * LANE_BYTES) => last.ret = "err"
          /\ IF last.ret = "ok"
             THEN /\ last.to_guest = cast_words(f1600(KeccakInput))
                  /\ last.res = <<0, 0>>
                  /\ metrics = last.count0 + 1
             ELSE metrics = last.count0
          /\ mem = last.mem0

C26_Witness ==
    /\ KeccakCall
    /\ last.ret = "ok"
    /\ ~is_aligned(KeccakPtr)
    /\ last.succ = 2
    /\ nops = 3
    /\ metrics = 7


\* C27: every transition ecall_read reports after the dispatch has next state
\* Decode iff the remaining length it reports is 0, HostReadBytes iff that
\* length is > 0 and the reported pointer is unaligned or the length is below
\* the word size, and HostReadWords otherwise; the first of them reports ptr
\* and the count host_read returned.
C27_NextStateClassified ==
    (ReadCall /\ Len(Reports) >= 2) =>
        /\ Reports[2][4] = waddr(IoPtr)
        /\ Reports[2][5] = subaddr(IoPtr)
        /\ Reports[2][6] = IoRlen
        /\ \A k \in 2 .. Len(Reports) :
              LET sub == Reports[k][5]
                  rem == Reports[k][6]
              IN  Reports[k][3] = IF rem = 0 THEN "Decode"
                                  ELSE IF sub # 0 \/ rem < WORD_SIZE THEN "HostReadBytes"
                                  ELSE "HostReadWords"

C27_Witness ==
    /\ ReadCall
    /\ last.ret = "false"
    /\ Len(Reports) = 3
    /\ Reports[2][3] = "HostReadBytes" /\ Reports[2][5] # 0 /\ Reports[2][6] >= WORD_SIZE
    /\ Reports[3][3] = "HostReadBytes" /\ Reports[3][5] = 0 /\ Reports[3][6] < WORD_SIZE


\* C28: every ecall_read that returns without error ends its reports in
\* Decode: the last transition it reports has next state Decode, at every
\* alignment of ptr and for every returned count.
C28_ReadEndsInDecode ==
    (ReadCall /\ IoValid /\ last.ret = "false") =>
        Reports[Len(Reports)][3] = "Decode"

\* C29: a word batch of ecall_read (here the first one of a read to an
\* aligned ptr, whose stores follow the second report) makes exactly
\* MAX_IO_WORDS stores: w = min(remaining / word size, MAX_IO_WORDS) stores of
\* consecutive data words to consecutive word addresses and MAX_IO_WORDS - w
\* stores of 0 to the scratch word; ptr, the buffer index and the remaining
\* length advance by one word per data word and not for a padding slot, so
\* the next report carries ptr + 4w and the remaining length less 4w.
C29_BatchStores ==
    (ReadCall /\ IoValid /\ is_aligned(IoPtr) /\ IoRlen >= WORD_SIZE /\ last.ret = "false") =>
        LET w == Min(IoRlen \div WORD_SIZE, MAX_IO_WORDS)
        IN  /\ Len(last.trace) >= 4 + MAX_IO_WORDS
            /\ \A j \in 0 .. MAX_IO_WORDS - 1 :
                  last.trace[5 + j] =
                      IF j < w
                      THEN <<"store_u32", waddr(IoPtr) + j, from_le_bytes(IoBytes, WORD_SIZE * j)>>
                      ELSE <<"store_u32", ScratchSlot, 0>>
            /\ Len(Reports) >= 3
            /\ Reports[3][4] = waddr(IoPtr) + w
            /\ Reports[3][5] = 0
            /\ Reports[3][6] = IoRlen - WORD_SIZE * w

\* C30 as stated: every transition ecall_read reports, the dispatch
\* MachineEcall -> HostReadSetup included, carries the word address and the
\* sub-word offset of the current pointer (and the remaining length).
C30_AllReportsCarryPointer ==
    (ReadCall /\ IoValid) =>
        \A k \in 1 .. Len(Reports) :
            Reports[k][4] * WORD_SIZE + Reports[k][5]
                = IoPtr + (IF k = 1 THEN 0 ELSE IoRlen - Reports[k][6])

\* C30 amended: the dispatch MachineEcall -> HostReadSetup is reported with
\* the payload (0, 0, 0), before ptr and len are read; every later transition
\* carries the word address and sub-word offset of the current pointer and the
\* remaining length: the first of them ptr and the returned count, and each
\* one a pointer that is ptr plus what the remaining length has gone down by.
\* A read that does not fail reports at least one such transition.
C30_DataReportsCarryPointer ==
    (ReadCall /\ IoValid) =>
        /\ Reports[1] = Report("MachineEcall", "HostReadSetup", 0, 0, 0)
        /\ last.ret # "fatal" => Len(Reports) >= 2
        /\ Len(Reports) >= 2 =>
              /\ Reports[2][4] = waddr(IoPtr) /\ Reports[2][5] = subaddr(IoPtr)
              /\ Reports[2][6] = IoRlen
        /\ \A k \in 2 .. Len(Reports) :
              /\ Reports[k][5] < WORD_SIZE
              /\ Reports[k][6] <= IoRlen
              /\ Reports[k][4] * WORD_SIZE + Reports[k][5] = IoPtr + (IoRlen - Reports[k][6])

C30_Witness ==
    /\ ReadCall /\ IoValid
    /\ last.ret = "false"
    /\ ~is_aligned(IoPtr)
    /\ Len(Reports) = 4
    /\ Reports[3][6] > 0
    /\ Reports[4][6] < Reports[3][6]


---------------------------------------------------------------------------
(* Reading the log of the last call: the context's reads and writes in the  *)
(* order the call made them.                                                *)

IsLoadU32(e) == e[1] = "load_u32"
IsPeekU32(e) == e[1] = "peek_u32"
Loads == SelectSeq(last.log, IsLoadU32)
Peeks == SelectSeq(last.log, IsPeekU32)
MachineArgSlots == {waddr(MACHINE_REGS_ADDR) + r : r \in {REG_A7, REG_A0, REG_A1, REG_A2}}

\* C31: a host-write ecall changes no memory word other than A0 of the
\* machine bank: its only store_u32 goes to that slot and it makes no
\* store_u8.  It reads the source span through peek_u32 only, one peek per
\* byte of the span, in order, at the word that holds the byte; its load_u32
\* calls read the argument registers A7, A0, A1, A2 of the machine bank and
\* nothing else.
C31_WriteFrame ==
    WriteCall =>
        /\ ChangedWords \subseteq {A0Slot}
        /\ \A k \in 1 .. Len(WordStores) : WordStores[k][2] = A0Slot
        /\ Len(WordStores) <= 1
        /\ ByteStores = <<>>
        /\ \A k \in 1 .. Len(Loads) : Loads[k][2] \in MachineArgSlots
        /\ Peeks = IF IoValid
                   THEN [k \in 1 .. IoLen |-> <<"peek_u32", waddr(IoPtr + (k - 1))>>]
                   ELSE <<>>

C31_Witness ==
    /\ WriteCall /\ IoValid /\ last.ret = "false"
    /\ ~is_aligned(IoPtr) /\ IoLen > WORD_SIZE
    /\ ChangedWords = {A0Slot}
    /\ Len(Peeks) = IoLen


\* the places of trap_rewind in the log, and the cause of the trap taken: the
\* argument of a trap call, EnvironmentCallFromUserMode in a user-mode ecall
RewindAt == {k \in 1 .. Len(last.log) : last.log[k] = <<"trap_rewind">>}
TrapTaken == TrapCall \/ (UserEcallCall /\ RewindAt # {})
TakenCause == IF TrapCall THEN last.arg[1] ELSE EnvironmentCallFromUserMode
TrapTableSlot == waddr(TRAP_DISPATCH_ADDR) + TakenCause
LogFrom(k) == SubSeq(last.log, k, Len(last.log))

\* C32: every trap(cause), called directly or by a user-mode ecall, calls
\* trap_rewind exactly once, as its first step: a trap call has it first in
\* its log, a user-mode ecall has before it only its own loads of A7 and of
\* the ecall dispatch table.  The read of the trap dispatch table follows it.
\* A trap that fails does nothing after that read: it has no trap(cause)
\* hook and leaves pc, mode and memory as they were.  A trap that succeeds
\* stores MEPC, sets the pc and the mode and calls the trap(cause) hook after
\* them, once, as its last step.
C32_TrapHookOrder ==
    TrapTaken =>
        /\ Cardinality(RewindAt) = 1
        /\ \A k \in RewindAt :
              /\ TrapCall => k = 1
              /\ \A j \in 1 .. k - 1 :
                    /\ last.log[j][1] = "load_u32"
                    /\ last.log[j][2] # TrapTableSlot
              /\ LogFrom(k) =
                    IF last.ret = "fatal"
                    THEN << <<"trap_rewind">>, <<"load_u32", TrapTableSlot>> >>
                    ELSE << <<"trap_rewind">>, <<"load_u32", TrapTableSlot>>,
                            <<"store_u32", waddr(MEPC_ADDR), last.pc0>>,
                            <<"set_pc", load_u32(last.mem0, TrapTableSlot)>>,
                            <<"set_machine_mode", 1>>,
                            <<"trap", TakenCause>> >>
        /\ last.ret = "fatal" =>
              pc = last.pc0 /\ mode = last.mode0 /\ mem = last.mem0
        /\ last.ret # "fatal" =>
              /\ last.ret = "false"
              /\ pc = load_u32(last.mem0, TrapTableSlot) /\ mode = 1
              /\ Mepc(mem) = last.pc0

\* a user-mode ecall that ends in a successful trap
C32_Witness ==
    /\ UserEcallCall /\ RewindAt # {} /\ last.ret = "false"
    /\ TrapHookCalled
    /\ Mepc(last.mem0) # last.pc0


\* the state the last check started from, with the mode flag set to m
PreInMode(m) == [Pre EXCEPT !.mode = m]
MachineFlags == {m \in InitModes : m # 0}

\* C33: whatever a check allows in user mode it allows in machine mode: when
\* check_insn_load, check_data_load or check_data_store has returned true in
\* user mode, the same check of the same address is true under every
\* machine-mode flag.
C33_MachineAtLeastUser ==
    (last.op \in {"check_insn_load", "check_data_load", "check_data_store"}
        /\ last.mode0 = 0 /\ last.ret = "true") =>
        \A m \in MachineFlags :
            /\ last.op = "check_insn_load" => check_insn_load(PreInMode(m), CheckAddr)
            /\ last.op = "check_data_load" => check_data_load(PreInMode(m), CheckAddr)
            /\ last.op = "check_data_store" => check_data_store(PreInMode(m), CheckAddr)

C33_Witness ==
    /\ last.op = "check_insn_load" /\ last.mode0 = 0 /\ last.ret = "true"
    /\ CheckAddr = KERNEL_START_ADDR - 1
    /\ nops = MaxChecks


Panics == {"index out of bounds", "underflow"}

\* C34: a host-read ecall with ptr + len inside the address space,
\* len <= MAX_IO_BYTES and a host answer of rlen <= len bytes never takes a
\* byte or a word slice outside the len-byte buffer and never brings the
\* remaining length below 0: it does not end in either panic.
C34_ReadNeverPanics ==
    (ReadCall /\ IoValid /\ IoRlen <= IoLen /\ Len(IoBytes) = IoLen) =>
        last.err \notin Panics

\* a read that runs the first byte loop, word batches of less than
\* MAX_IO_WORDS words and ends with bytes left
C34_Witness ==
    /\ ReadCall /\ IoValid /\ IoRlen = IoLen /\ Len(IoBytes) = IoLen
    /\ ~is_aligned(IoPtr)
    /\ IoRlen = 2 * WORD_SIZE + 1
    /\ last.ret = "false"
    /\ Len(WordStores) > MAX_IO_WORDS


\* an mret in machine mode that follows an entry from user mode (a user-mode
\* ecall dispatched to a handler, or a trap) with no store to MEPC in between
MretAfterEntry == last.op = "mret" /\ last.mode0 # 0 /\ last.entered.valid
EnteredPc == last.entered.pc

\* C35 as stated: after an entry from user mode at pc p, an mret executed
\* later, with MEPC not overwritten in between, leaves the mode user and
\* pc = p + 4.
C35_EntryMretCompose ==
    MretAfterEntry => mode = 0 /\ pc = EnteredPc + WORD_SIZE

\* C35 amended: after an entry from user mode at a pc p with p + 4 inside the
\* address space, an mret executed later in machine mode, with MEPC not
\* overwritten in between, returns true and leaves the mode user and
\* pc = p + 4; with p + 4 outside the address space the mret fails and
\* leaves pc and mode as they were.
C35_EntryMretComposePcFits ==
    MretAfterEntry =>
        IF add_overflows(EnteredPc, WORD_SIZE)
        THEN last.ret = "fatal" /\ pc = last.pc0 /\ mode = last.mode0
        ELSE last.ret = "true" /\ mode = 0 /\ pc = EnteredPc + WORD_SIZE

\* the entry is a user-mode ecall dispatched to its handler, and a store to
\* another slot lies between the entry and the mret
C35_Witness ==
    /\ MretAfterEntry /\ last.ret = "true"
    /\ EnteredPc = 512 /\ pc = 516
    /\ last.pc0 = load_u32(mem, waddr(ECALL_DISPATCH_ADDR) + EcallIdx)
    /\ load_u32(mem, waddr(SUSPEND_PC_ADDR)) # 0


\* C36: the transitions a machine ecall reports form a chain: the first one
\* leaves MachineEcall and each later one leaves the state the one before it
\* went to; terminate, host read, host write and Poseidon2 each report at
\* least one when they do not fail.  A user-mode ecall, an mret and a trap
\* report none.
C36_ReportsChain ==
    /\ MachineEcallCall =>
          /\ (MReg(last.mem0, REG_A7) \in KnownCodes /\ last.ret # "fatal") =>
                Len(Reports) >= 1
          /\ Len(Reports) >= 1 => Reports[1][2] = "MachineEcall"
          /\ \A k \in 2 .. Len(Reports) : Reports[k][2] = Reports[k - 1][3]
    /\ (UserEcallCall \/ last.op \in {"mret", "trap"}) => Reports = <<>>

\* a read of three bytes, a full batch and a batch of three words
C36_Witness ==
    /\ ReadCall /\ IoValid /\ last.ret = "false"
    /\ Transitions = << <<"MachineEcall", "HostReadSetup">>,
                        <<"HostReadSetup", "HostReadBytes">>,
                        <<"HostReadBytes", "HostReadWords">>,
                        <<"HostReadWords", "HostReadBytes">> >>


SetsMode == \E k \in 1 .. Len(last.log) : last.log[k][1] = "set_machine_mode"

\* C37: a machine ecall (terminate, host read, host write, Poseidon2, or an
\* unknown code) never sets the machine-mode flag: the flag after it is the
\* flag before it.  A call changes the flag only as a user-mode ecall or a
\* trap from user mode, to machine mode; as an mret from machine mode, to
\* user mode; or as a resume.
C37_ModeChanges ==
    /\ MachineEcallCall => (mode = last.mode0 /\ ~SetsMode)
    /\ (mode # last.mode0 \/ SetsMode) =>
          \/ last.op \in {"ecall", "trap"} /\ last.mode0 = 0 /\ mode = 1
          \/ last.op = "mret" /\ last.mode0 # 0 /\ mode = 0
          \/ last.op = "resume"

\* a host read that stores bytes and words and stays in machine mode
C37_Witness ==
    /\ ReadCall /\ IoValid /\ last.ret = "false"
    /\ ByteStores # <<>> /\ Len(Reports) >= 3
    /\ mode = 1 /\ last.mode0 = 1


LoopDone == last.at = "done"
\* a step that ends an iteration: rlen0 is rlen at the start of it
IterationDecreases ==
    (last'.byte_iters # last.byte_iters \/ last'.batches # last.batches) =>
        last'.rlen < last'.rlen0

\* C38: a host-read ecall comes to its end, by returning or by an error, for
\* every ptr, len and host answer; every iteration of a byte loop and of the
\* word loop leaves the remaining length smaller than it found it; and at
\* every moment the transitions reported are at most two more than the word
\* batches made.
C38_ReadTerminates ==
    /\ <>LoopDone
    /\ [][IterationDecreases]_vars
    /\ [](Len(Reports) <= 2 + last.batches)

\* a read that has returned after three byte iterations and two batches
C38_Witness ==
    /\ LoopDone /\ last.ret = "false"
    /\ IoValid /\ IoRlen <= IoLen
    /\ last.byte_iters = 3 /\ last.batches = 2
    /\ Len(Reports) = 4

=============================================================================
